---- MODULE Spec2Model ----
(***************************************************************************)
(* The AP rotation daemon of ssb-wifi (src/ap/ap_rotate.py) and the status *)
(* reader of the web view (src/web/server.py) as a state machine.          *)
(*                                                                         *)
(* Time is in whole seconds (time.time() floored); the intervals of the    *)
(* configuration are scaled down to a few seconds.  Writes below RUN_DIR   *)
(* are taken to succeed; what may fail is what rotate_credentials tests:   *)
(* the hostapd configuration write, the QR conversion, the hostapd restart.*)
(***************************************************************************)
EXTENDS Integers, Sequences, FiniteSets, TLC

\* ------------------------------------------------------------- bounds
MaxTime == 3
MaxClients == 1
MaxRand == 2
MaxAttempts == 3
MaxAttemptsMT == 2
MaxStrLen == 2
BootTime == 10

\* ------------------------------------------------------------- constants
Ifaces == {"wlan0", "wlan1"}
IfaceOrder == <<"wlan0", "wlan1">>
Threads == {"main", "ext"}
Null == "null"
NoThread == "unlocked"

DefaultConfig ==
    [rotation_interval_sec |-> 3, client_threshold |-> 1,
     min_time_after_clients_sec |-> 1, manual_rotation_cooldown_sec |-> 2,
     log_retention_count |-> 2, dual_ap_mode |-> FALSE, ssid_prefix |-> "ssb-"]

FileConfig ==
    [rotation_interval_sec |-> 2, client_threshold |-> 2,
     min_time_after_clients_sec |-> 0, manual_rotation_cooldown_sec |-> 1,
     log_retention_count |-> 1, dual_ap_mode |-> FALSE, ssid_prefix |-> "net-"]

\* DEFAULT_CONFIG["interfaces"]: what the file does not override.
DefaultInterfaces ==
    [i \in Ifaces |-> IF i = "wlan0" THEN [enabled |-> TRUE, channel |-> 6]
                      ELSE [enabled |-> FALSE, channel |-> 11]]

\* The "interfaces" section of the configuration file behind a loaded
\* configuration: the keys it gives for each interface, <<>> for none.
FileInterfaces(c) ==
    [i \in Ifaces |-> IF c = FileConfig /\ i = "wlan0" THEN <<[channel |-> 1]>>
                      ELSE <<>>]

\* _load_config on the interfaces: DEFAULT_CONFIG.copy() is shallow, so the
\* update of lines 446-451 is made in place on the dictionaries every earlier
\* load returned and every engine holds; a key the file no longer gives keeps
\* the value of the last file that gave it.
_load_interfaces(shared, c) ==
    [i \in Ifaces |->
        IF FileInterfaces(c)[i] = <<>> THEN shared[i]
        ELSE [shared[i] EXCEPT !.channel = FileInterfaces(c)[i][1].channel]]

\* sys.argv of make_qr.py before it is called.
NoArgs == [ssid |-> <<>>, password |-> <<>>]

\* What _load_config can return: the defaults, or the defaults overridden by
\* the configuration file.
ConfigSet == {DefaultConfig, FileConfig}

\* The configurations should_rotate is evaluated under as a pure function.
EvalConfigSet ==
    [rotation_interval_sec : 0..MaxTime, client_threshold : 0..(MaxClients + 1),
     min_time_after_clients_sec : 0..MaxTime, manual_rotation_cooldown_sec : {2},
     log_retention_count : {2}, dual_ap_mode : {FALSE}, ssid_prefix : {"ssb-"}]

VARIABLES
    now,                  \* time.time()
    config,               \* APRotationDaemon.config
    running,              \* APRotationDaemon.running
    ap_instances,         \* keys of APRotationDaemon.ap_instances
    global_config,        \* APInstance.global_config
    current_creds,        \* APInstance.current_creds: <<>> is None, <<c>> is c
    last_manual_rotation, \* APInstance.last_manual_rotation
    rotation_lock,        \* APInstance.rotation_lock: its holder, or NoThread
    status_file,          \* RUN_DIR/status-<iface>.json
    creds_file,           \* RUN_DIR/current-<iface>.json
    trigger_file,         \* RUN_DIR/trigger-rotate-<iface> exists
    hostapd_conf,         \* /etc/hostapd/hostapd-<iface>.conf
    rotations,            \* LOG_DIR/rotations.json
    pc,                   \* position of each thread
    cur,                  \* index of the interface the main thread is at
    rot,                  \* frame of rotate_credentials, per thread
    upd,                  \* frame of update_status, per thread
    decision,             \* last value returned by should_rotate
    client_count,         \* the local client_count of that should_rotate call
    legacy_status,        \* RUN_DIR/status.json, which the daemon never writes
    view,                 \* last value returned by the reader's get_interface_status
    attempts,             \* rotate_credentials calls made so far
    budget,               \* rotate_credentials calls the run may make
    warned,               \* check_trigger_file has just logged the cooldown warning
    interfaces,           \* DEFAULT_CONFIG["interfaces"], shared by every loaded config
    ap_config,            \* APInstance.config
    host_ifaces,          \* the interfaces `ip link show` finds on the host
    qr_args,              \* ssid and password given to make_qr.py
    qr_string,            \* the string generate_wifi_qr_string returned
    led_status            \* last value returned by the LED monitor's get_interface_status

vars == <<now, config, running, ap_instances, global_config,
          current_creds, last_manual_rotation, rotation_lock, status_file,
          creds_file, trigger_file, hostapd_conf, rotations, pc, cur, rot,
          upd, decision, client_count, legacy_status, view, attempts, budget,
          warned, interfaces, ap_config, host_ifaces, qr_args, qr_string,
          led_status>>

\* The per-interface configuration, as the daemon and as each engine see it.
iface_cfg == <<interfaces, ap_config>>

\* What no step of the daemon's run loop writes.
peripheral == <<host_ifaces, qr_args, qr_string, led_status>>

\* ------------------------------------------------------------- files
FileAbsent == [kind |-> "absent"]
FileEmpty == [kind |-> "empty"]
FileJson(d) == [kind |-> "json", data |-> d]

\* ------------------------------------------------------------- credentials
HasCreds(i) == current_creds[i] # <<>>
Creds(i) == current_creds[i][1]

Credentials(i, ssid, password, created_at, expires_at, reason) ==
    [interface |-> i, ssid |-> ssid, password |-> password,
     created_at |-> created_at, expires_at |-> expires_at,
     rotation_reason |-> reason]

\* The name and the passphrase that outcome k of the random source gives.
generate_ssid(k, cfg) == cfg.ssid_prefix \o ToString(k)
generate_password(k) == "pw" \o ToString(k)

\* get_client_count: the stations iw reports, 0 when the probe fails.
ClientCounts == 0..MaxClients

\* ------------------------------------------------------------- should_rotate, broken
\* should_rotate without the "initial" case.
should_rotate_NoInitial(creds, t, n, cfg) ==
    IF creds = <<>> THEN <<FALSE, "">>
    ELSE LET c == creds[1]
             time_since_creation == t - c.created_at
         IN  IF t >= c.expires_at THEN <<TRUE, "time_expired">>
             ELSE IF /\ n >= cfg.client_threshold
                     /\ time_since_creation >= cfg.min_time_after_clients_sec
                  THEN <<TRUE, "client_threshold_" \o ToString(n)>>
                  ELSE <<FALSE, "">>

\* should_rotate testing the client threshold before the expiry.
should_rotate_ThresholdFirst(creds, t, n, cfg) ==
    IF creds = <<>> THEN <<TRUE, "initial">>
    ELSE LET c == creds[1]
             time_since_creation == t - c.created_at
         IN  IF /\ n >= cfg.client_threshold
                /\ time_since_creation >= cfg.min_time_after_clients_sec
             THEN <<TRUE, "client_threshold_" \o ToString(n)>>
             ELSE IF t >= c.expires_at THEN <<TRUE, "time_expired">>
                  ELSE <<FALSE, "">>

\* should_rotate naming the threshold, not the observed count, in the reason.
should_rotate_ThresholdInReason(creds, t, n, cfg) ==
    IF creds = <<>> THEN <<TRUE, "initial">>
    ELSE LET c == creds[1]
             time_since_creation == t - c.created_at
         IN  IF t >= c.expires_at THEN <<TRUE, "time_expired">>
             ELSE IF /\ n >= cfg.client_threshold
                     /\ time_since_creation >= cfg.min_time_after_clients_sec
                  THEN <<TRUE, "client_threshold_" \o ToString(cfg.client_threshold)>>
                  ELSE <<FALSE, "">>

\* should_rotate with "or" for "and" in the client-threshold test.
should_rotate_Or(creds, t, n, cfg) ==
    IF creds = <<>> THEN <<TRUE, "initial">>
    ELSE LET c == creds[1]
             time_since_creation == t - c.created_at
         IN  IF t >= c.expires_at THEN <<TRUE, "time_expired">>
             ELSE IF \/ n >= cfg.client_threshold
                     \/ time_since_creation >= cfg.min_time_after_clients_sec
                  THEN <<TRUE, "client_threshold_" \o ToString(n)>>
                  ELSE <<FALSE, "">>

\* ------------------------------------------------------------- should_rotate
should_rotate(creds, t, n, cfg) ==
    IF creds = <<>> THEN <<TRUE, "initial">>
    ELSE LET c == creds[1]
             time_since_creation == t - c.created_at
         IN  IF t >= c.expires_at THEN <<TRUE, "time_expired">>
             ELSE IF /\ n >= cfg.client_threshold
                     /\ time_since_creation >= cfg.min_time_after_clients_sec
                  THEN <<TRUE, "client_threshold_" \o ToString(n)>>
                  ELSE <<FALSE, "">>

\* ------------------------------------------------------------- frames
NoRot ==
    [iface |-> "wlan0", reason |-> "", ssid |-> "", password |-> "", now |-> 0,
     expires_at |-> 0, steps |-> <<>>, creds_before |-> <<>>, ret |-> "idle",
     result |-> FALSE]

NoUpd ==
    [iface |-> "wlan0", state |-> "", error |-> Null, data |-> <<>>, ret |-> "idle"]

Engines == SelectSeq(IfaceOrder, LAMBDA i : i \in ap_instances)

\* ------------------------------------------------------------- update_status
\* The InterfaceStatus update_status builds (lines 295-311).
InterfaceStatus(i, state, error, n) ==
    [interface |-> i,
     enabled |-> ap_config[i].enabled,
     state |-> state,
     ssid |-> IF HasCreds(i) THEN Creds(i).ssid ELSE "",
     created_at |-> IF HasCreds(i) THEN Creds(i).created_at ELSE 0,
     expires_at |-> IF HasCreds(i) THEN Creds(i).expires_at ELSE 0,
     time_remaining |-> IF HasCreds(i) /\ Creds(i).expires_at > now
                        THEN Creds(i).expires_at - now ELSE 0,
     client_count |-> n,
     last_rotation_reason |-> IF HasCreds(i) THEN Creds(i).rotation_reason ELSE "",
     last_error |-> error]

\* A call of update_status(state, error) by thread t, returning to ret.
CallUpdateStatus(t, i, state, error, ret) ==
    /\ pc' = [pc EXCEPT ![t] = "us_open"]
    /\ upd' = [upd EXCEPT ![t] = [iface |-> i, state |-> state, error |-> error,
                                  data |-> <<>>, ret |-> ret]]

\* open(status_file, 'w'): the status is built, then the file is truncated.
us_open(t) ==
    /\ pc[t] = "us_open"
    /\ LET i == upd[t].iface IN
       /\ \E n \in ClientCounts :
             upd' = [upd EXCEPT ![t].data =
                        <<InterfaceStatus(i, upd[t].state, upd[t].error, n)>>]
       /\ status_file' = [status_file EXCEPT ![i] = FileEmpty]
    /\ pc' = [pc EXCEPT ![t] = "us_dump"]
    /\ UNCHANGED <<now, config, running, ap_instances, global_config,
                   current_creds, last_manual_rotation, rotation_lock,
                   creds_file, trigger_file, hostapd_conf, rotations, cur, rot,
                   decision, client_count, legacy_status, view, attempts, budget,
                   warned, iface_cfg, peripheral>>

\* json.dump(asdict(status), f) and the close of the file.
us_dump(t) ==
    /\ pc[t] = "us_dump"
    /\ status_file' = [status_file EXCEPT ![upd[t].iface] = FileJson(upd[t].data[1])]
    /\ pc' = [pc EXCEPT ![t] = upd[t].ret]
    /\ upd' = [upd EXCEPT ![t] = NoUpd]
    /\ UNCHANGED <<now, config, running, ap_instances, global_config,
                   current_creds, last_manual_rotation, rotation_lock,
                   creds_file, trigger_file, hostapd_conf, rotations, cur, rot,
                   decision, client_count, legacy_status, view, attempts, budget,
                   warned, iface_cfg, peripheral>>

\* ------------------------------------------------------------- rotate_credentials
\* A call of rotate_credentials(reason) by thread t, returning to ret.  The
\* frame also keeps current_creds as the call found it and the steps the call
\* has run with their outcomes; the code reads neither.
CallRotate(t, i, reason, ret) ==
    /\ attempts < budget
    /\ attempts' = attempts + 1
    /\ pc' = [pc EXCEPT ![t] = "rc_lock"]
    /\ rot' = [rot EXCEPT ![t] = [NoRot EXCEPT !.iface = i, !.reason = reason,
                                               !.ret = ret,
                                               !.creds_before = current_creds[i]]]

Step(t, name, ok) == [rot EXCEPT ![t].steps = Append(@, <<name, ok>>)]

\* A lock that never blocks.
LockFree_Always(i) == TRUE

\* threading.Lock.acquire blocks while the lock is held.
LockFree(i) == rotation_lock[i] = NoThread

\* rotate_credentials taking the lock without publishing "rotating".
rc_lock_NoRotating(t) ==
    /\ pc[t] = "rc_lock"
    /\ LockFree(rot[t].iface)
    /\ rotation_lock' = [rotation_lock EXCEPT ![rot[t].iface] = t]
    /\ pc' = [pc EXCEPT ![t] = "rc_generate"]
    /\ UNCHANGED <<now, config, running, ap_instances, global_config,
                   current_creds, last_manual_rotation, status_file,
                   creds_file, trigger_file, hostapd_conf, rotations, cur, rot,
                   upd, decision, client_count, legacy_status, view, attempts, budget,
                   warned, iface_cfg, peripheral>>

\* with self.rotation_lock: ... self.update_status("rotating")
rc_lock(t) ==
    /\ pc[t] = "rc_lock"
    /\ LockFree(rot[t].iface)
    /\ rotation_lock' = [rotation_lock EXCEPT ![rot[t].iface] = t]
    /\ CallUpdateStatus(t, rot[t].iface, "rotating", Null, "rc_generate")
    /\ UNCHANGED <<now, config, running, ap_instances, global_config,
                   current_creds, last_manual_rotation, status_file,
                   creds_file, trigger_file, hostapd_conf, rotations, cur, rot,
                   decision, client_count, legacy_status, view, attempts, budget,
                   warned, iface_cfg, peripheral>>

\* The outcomes of the random source a rotation can draw.  The outcomes are
\* interchangeable, so the n-th rotation draws among the first n of them.
RandomDraws == {k \in 1..MaxRand : k <= attempts}

\* new_ssid, new_password, now, expires_at (lines 327-331)
rc_generate(t) ==
    /\ pc[t] = "rc_generate"
    /\ \E k \in RandomDraws :
          rot' = [rot EXCEPT ![t].ssid = generate_ssid(k, global_config[rot[t].iface]),
                             ![t].password = generate_password(k),
                             ![t].now = now,
                             ![t].expires_at =
                                 now + global_config[rot[t].iface].rotation_interval_sec]
    /\ pc' = [pc EXCEPT ![t] = "rc_write_config"]
    /\ UNCHANGED <<now, config, running, ap_instances, global_config,
                   current_creds, last_manual_rotation, rotation_lock, status_file,
                   creds_file, trigger_file, hostapd_conf, rotations, cur,
                   upd, decision, client_count, legacy_status, view, attempts, budget,
                   warned, iface_cfg, peripheral>>

\* The template with {{SSID}}, {{PASSWORD}} and {{CHANNEL}} replaced.
HostapdConf(t) ==
    FileJson([ssid |-> rot[t].ssid, password |-> rot[t].password,
              channel |-> ap_config[rot[t].iface].channel])

\* rotate_credentials going on after a failed write_hostapd_config.
rc_write_config_IgnoresFailure(t) ==
    /\ pc[t] = "rc_write_config"
    /\ \E ok \in BOOLEAN, f \in {hostapd_conf[rot[t].iface], FileEmpty, HostapdConf(t)} :
          /\ hostapd_conf' = [hostapd_conf EXCEPT ![rot[t].iface] =
                                 IF ok THEN HostapdConf(t) ELSE f]
          /\ rot' = Step(t, "write_hostapd_config", ok)
    /\ pc' = [pc EXCEPT ![t] = "rc_qr"]
    /\ UNCHANGED <<now, config, running, ap_instances, global_config,
                   current_creds, last_manual_rotation, rotation_lock, status_file,
                   creds_file, trigger_file, rotations, cur,
                   upd, decision, client_count, legacy_status, view, attempts, budget,
                   warned, iface_cfg, peripheral>>

\* write_hostapd_config: True when the file is written and chmod-ed; False when
\* the template is missing, the open or the write raises (the file is left as
\* it was or truncated) or chmod raises (the file is already rewritten).
rc_write_config(t) ==
    /\ pc[t] = "rc_write_config"
    /\ LET i == rot[t].iface IN
       \/ /\ hostapd_conf' = [hostapd_conf EXCEPT ![i] = HostapdConf(t)]
          /\ rot' = Step(t, "write_hostapd_config", TRUE)
          /\ pc' = [pc EXCEPT ![t] = "rc_qr"]
          /\ UNCHANGED upd
       \/ /\ \E f \in {hostapd_conf[i], FileEmpty, HostapdConf(t)} :
                hostapd_conf' = [hostapd_conf EXCEPT ![i] = f]
          /\ rot' = Step(t, "write_hostapd_config", FALSE)
          /\ CallUpdateStatus(t, i, "error", "Failed to write hostapd config",
                              "rc_config_failed")
    /\ UNCHANGED <<now, config, running, ap_instances, global_config,
                   current_creds, last_manual_rotation, rotation_lock, status_file,
                   creds_file, trigger_file, rotations, cur,
                   decision, client_count, legacy_status, view, attempts, budget,
                   warned, iface_cfg, peripheral>>

\* rotate_credentials treating a failed generate_qr as a failed gate.
rc_qr_Fatal(t) ==
    /\ pc[t] = "rc_qr"
    /\ \/ /\ rot' = Step(t, "generate_qr", TRUE)
          /\ pc' = [pc EXCEPT ![t] = "rc_restart"]
          /\ UNCHANGED upd
       \/ /\ rot' = Step(t, "generate_qr", FALSE)
          /\ CallUpdateStatus(t, rot[t].iface, "error", "QR generation failed",
                              "rc_config_failed")
    /\ UNCHANGED <<now, config, running, ap_instances, global_config,
                   current_creds, last_manual_rotation, rotation_lock, status_file,
                   creds_file, trigger_file, hostapd_conf, rotations, cur,
                   decision, client_count, legacy_status, view, attempts, budget,
                   warned, iface_cfg, peripheral>>

\* generate_qr: its failure is logged and the rotation continues.
rc_qr(t) ==
    /\ pc[t] = "rc_qr"
    /\ \E ok \in BOOLEAN : rot' = Step(t, "generate_qr", ok)
    /\ pc' = [pc EXCEPT ![t] = "rc_restart"]
    /\ UNCHANGED <<now, config, running, ap_instances, global_config,
                   current_creds, last_manual_rotation, rotation_lock, status_file,
                   creds_file, trigger_file, hostapd_conf, rotations, cur,
                   upd, decision, client_count, legacy_status, view, attempts, budget,
                   warned, iface_cfg, peripheral>>

\* rotate_credentials going on after a failed restart_hostapd.
rc_restart_IgnoresFailure(t) ==
    /\ pc[t] = "rc_restart"
    /\ \E d \in 0..1 : now + d <= BootTime + MaxTime /\ now' = now + d
    /\ \E ok \in BOOLEAN : rot' = Step(t, "restart_hostapd", ok)
    /\ pc' = [pc EXCEPT ![t] = "rc_commit"]
    /\ UNCHANGED <<config, running, ap_instances, global_config,
                   current_creds, last_manual_rotation, rotation_lock, status_file,
                   creds_file, trigger_file, hostapd_conf, rotations, cur,
                   upd, decision, client_count, legacy_status, view, attempts, budget,
                   warned, iface_cfg, peripheral>>

\* rotate_credentials putting the configuration of the credentials in force
\* back on disk when the restart fails.
rc_restart_RestoresConfig(t) ==
    /\ pc[t] = "rc_restart"
    /\ \E d \in 0..1 : now + d <= BootTime + MaxTime /\ now' = now + d
    /\ \/ /\ rot' = Step(t, "restart_hostapd", TRUE)
          /\ pc' = [pc EXCEPT ![t] = "rc_commit"]
          /\ UNCHANGED <<upd, hostapd_conf>>
       \/ /\ rot' = Step(t, "restart_hostapd", FALSE)
          /\ hostapd_conf' =
                [hostapd_conf EXCEPT ![rot[t].iface] =
                    IF HasCreds(rot[t].iface)
                    THEN FileJson([ssid |-> Creds(rot[t].iface).ssid,
                                   password |-> Creds(rot[t].iface).password,
                                   channel |-> ap_config[rot[t].iface].channel])
                    ELSE FileAbsent]
          /\ CallUpdateStatus(t, rot[t].iface, "error", "Failed to restart hostapd",
                              "rc_restart_failed")
    /\ UNCHANGED <<config, running, ap_instances, global_config,
                   current_creds, last_manual_rotation, rotation_lock, status_file,
                   creds_file, trigger_file, rotations, cur,
                   decision, client_count, legacy_status, view, attempts, budget,
                   warned, iface_cfg, peripheral>>

\* restart_hostapd: False on a non-zero return code, a timeout or an exception.
\* The call blocks for up to 30 seconds.
rc_restart(t) ==
    /\ pc[t] = "rc_restart"
    /\ \E d \in 0..1 : now + d <= BootTime + MaxTime /\ now' = now + d
    /\ \/ /\ rot' = Step(t, "restart_hostapd", TRUE)
          /\ pc' = [pc EXCEPT ![t] = "rc_commit"]
          /\ UNCHANGED upd
       \/ /\ rot' = Step(t, "restart_hostapd", FALSE)
          /\ CallUpdateStatus(t, rot[t].iface, "error", "Failed to restart hostapd",
                              "rc_restart_failed")
    /\ UNCHANGED <<config, running, ap_instances, global_config,
                   current_creds, last_manual_rotation, rotation_lock, status_file,
                   creds_file, trigger_file, hostapd_conf, rotations, cur,
                   decision, client_count, legacy_status, view, attempts, budget,
                   warned, iface_cfg, peripheral>>

\* Credentials built with the reason of the credentials they replace.
NewCreds_StaleReason(t) ==
    Credentials(rot[t].iface, rot[t].ssid, rot[t].password, rot[t].now,
                rot[t].expires_at,
                IF rot[t].creds_before = <<>> THEN ""
                ELSE rot[t].creds_before[1].rotation_reason)

NewCreds(t) ==
    Credentials(rot[t].iface, rot[t].ssid, rot[t].password, rot[t].now,
                rot[t].expires_at, rot[t].reason)

\* self.current_creds = Credentials(...)
rc_commit(t) ==
    /\ pc[t] = "rc_commit"
    /\ current_creds' = [current_creds EXCEPT ![rot[t].iface] = <<NewCreds(t)>>]
    /\ rot' = Step(t, "current_creds", TRUE)
    /\ pc' = [pc EXCEPT ![t] = "rc_save"]
    /\ UNCHANGED <<now, config, running, ap_instances, global_config,
                   last_manual_rotation, rotation_lock, status_file,
                   creds_file, trigger_file, hostapd_conf, rotations, cur,
                   upd, decision, client_count, legacy_status, view, attempts, budget,
                   warned, iface_cfg, peripheral>>

\* save_credentials writing nothing.
save_credentials_Skipped(i) == creds_file[i]

\* What save_credentials leaves in current-<iface>.json.
save_credentials(i) ==
    IF HasCreds(i) THEN FileJson(Creds(i)) ELSE creds_file[i]

\* self.save_credentials(); self.update_status("ready")
rc_save(t) ==
    /\ pc[t] = "rc_save"
    /\ creds_file' = [creds_file EXCEPT ![rot[t].iface] = save_credentials(rot[t].iface)]
    /\ rot' = Step(t, "save_credentials", TRUE)
    /\ CallUpdateStatus(t, rot[t].iface, "ready", Null, "rc_done")
    /\ UNCHANGED <<now, config, running, ap_instances, global_config,
                   current_creds, last_manual_rotation, rotation_lock, status_file,
                   trigger_file, hostapd_conf, rotations, cur,
                   decision, client_count, legacy_status, view, attempts, budget,
                   warned, iface_cfg, peripheral>>

\* rotate_credentials returning from the except clause without leaving the
\* with block: the lock stays held.
rc_return_KeepsLockOnException(t) ==
    /\ pc[t] \in {"rc_done", "rc_config_failed", "rc_restart_failed", "rc_exception"}
    /\ rotation_lock' = [rotation_lock EXCEPT ![rot[t].iface] =
                            IF pc[t] = "rc_exception" THEN @ ELSE NoThread]
    /\ rot' = [rot EXCEPT ![t].result = (pc[t] = "rc_done")]
    /\ pc' = [pc EXCEPT ![t] = rot[t].ret]
    /\ UNCHANGED <<now, config, running, ap_instances, global_config,
                   current_creds, last_manual_rotation, status_file,
                   creds_file, trigger_file, hostapd_conf, rotations, cur,
                   upd, decision, client_count, legacy_status, view, attempts, budget,
                   warned, iface_cfg, peripheral>>

\* The return statements of rotate_credentials (lines 335, 342, 357, 362): the
\* with block releases the lock.
rc_return(t) ==
    /\ pc[t] \in {"rc_done", "rc_config_failed", "rc_restart_failed", "rc_exception"}
    /\ rotation_lock' = [rotation_lock EXCEPT ![rot[t].iface] = NoThread]
    /\ rot' = [rot EXCEPT ![t].result = (pc[t] = "rc_done")]
    /\ pc' = [pc EXCEPT ![t] = rot[t].ret]
    /\ UNCHANGED <<now, config, running, ap_instances, global_config,
                   current_creds, last_manual_rotation, status_file,
                   creds_file, trigger_file, hostapd_conf, rotations, cur,
                   upd, decision, client_count, legacy_status, view, attempts, budget,
                   warned, iface_cfg, peripheral>>

Rotate(t) ==
    \/ rc_lock(t)
    \/ rc_generate(t)
    \/ rc_write_config(t)
    \/ rc_qr(t)
    \/ rc_restart(t)
    \/ rc_commit(t)
    \/ rc_save(t)
    \/ rc_return(t)
    \/ us_open(t)
    \/ us_dump(t)

\* An except clause that returns False without publishing "error".
rc_raise_NoErrorStatus(t) ==
    /\ pc[t] = "rc_generate"
    /\ rot' = Step(t, "exception", FALSE)
    /\ pc' = [pc EXCEPT ![t] = "rc_exception"]
    /\ UNCHANGED <<now, config, running, ap_instances, global_config,
                   current_creds, last_manual_rotation, rotation_lock, status_file,
                   creds_file, trigger_file, hostapd_conf, rotations, cur,
                   upd, decision, client_count, legacy_status, view, attempts, budget,
                   warned, iface_cfg, peripheral>>

\* An exception inside the try block of rotate_credentials: the statements
\* of lines 327-331 are the ones no callee guards.  except Exception as e:
\* self.update_status("error", str(e)); return False (lines 359-362).
rc_raise(t) ==
    /\ pc[t] = "rc_generate"
    /\ rot' = Step(t, "exception", FALSE)
    /\ CallUpdateStatus(t, rot[t].iface, "error", "exception", "rc_exception")
    /\ UNCHANGED <<now, config, running, ap_instances, global_config,
                   current_creds, last_manual_rotation, rotation_lock, status_file,
                   creds_file, trigger_file, hostapd_conf, rotations, cur,
                   decision, client_count, legacy_status, view, attempts, budget,
                   warned, iface_cfg, peripheral>>

\* ------------------------------------------------------------- log_rotation
\* The Python slice s[-n:].
PySliceLast(s, n) ==
    IF n > 0 THEN SubSeq(s, (IF Len(s) > n THEN Len(s) - n + 1 ELSE 1), Len(s))
    ELSE IF n = 0 THEN s
    ELSE SubSeq(s, (IF Len(s) > -n THEN -n + 1 ELSE Len(s) + 1), Len(s))

\* rotations.json after log_rotation(creds).
log_rotation(creds) ==
    LET entry == [timestamp |-> now, interface |-> creds.interface,
                  ssid |-> creds.ssid, reason |-> creds.rotation_reason,
                  created_at |-> creds.created_at]
        appended == Append(rotations, entry)
        retention == config.log_retention_count
    IN  IF Len(appended) > retention THEN PySliceLast(appended, retention)
        ELSE appended

\* ------------------------------------------------------------- APRotationDaemon.run
CurIface == Engines[cur]

\* for interface, ap in self.ap_instances.items(): ap.rotate_credentials("startup")
start_iface ==
    /\ pc["main"] = "start_iface"
    /\ IF cur > Len(Engines)
       THEN /\ pc' = [pc EXCEPT !["main"] = "loop_head"]
            /\ UNCHANGED <<rot, attempts>>
       ELSE CallRotate("main", CurIface, "startup", "start_ret1")
    /\ UNCHANGED <<now, config, running, ap_instances, global_config,
                   current_creds, last_manual_rotation, rotation_lock, status_file,
                   creds_file, trigger_file, hostapd_conf, rotations, cur,
                   upd, decision, client_count, legacy_status, view, budget,
                   warned, iface_cfg, peripheral>>

\* The startup loop going to the next interface after a failed first rotation.
start_ret1_NoRetry ==
    /\ pc["main"] = "start_ret1"
    /\ IF rot["main"].result
       THEN /\ rotations' = log_rotation(Creds(CurIface))
            /\ cur' = cur + 1
            /\ pc' = [pc EXCEPT !["main"] = "start_iface"]
       ELSE /\ pc' = [pc EXCEPT !["main"] = "start_next"]
            /\ UNCHANGED <<rotations, cur>>
    /\ rot' = [rot EXCEPT !["main"] = NoRot]
    /\ UNCHANGED <<now, config, running, ap_instances, global_config,
                   current_creds, last_manual_rotation, rotation_lock, status_file,
                   creds_file, trigger_file, hostapd_conf,
                   upd, decision, client_count, legacy_status, view, attempts, budget,
                   warned, iface_cfg, peripheral>>

\* The first startup rotation returned: log it, or go on to the retry.
start_ret1 ==
    /\ pc["main"] = "start_ret1"
    /\ IF rot["main"].result
       THEN /\ rotations' = log_rotation(Creds(CurIface))
            /\ cur' = cur + 1
            /\ pc' = [pc EXCEPT !["main"] = "start_iface"]
       ELSE /\ pc' = [pc EXCEPT !["main"] = "start_sleep"]
            /\ UNCHANGED <<rotations, cur>>
    /\ rot' = [rot EXCEPT !["main"] = NoRot]
    /\ UNCHANGED <<now, config, running, ap_instances, global_config,
                   current_creds, last_manual_rotation, rotation_lock, status_file,
                   creds_file, trigger_file, hostapd_conf,
                   upd, decision, client_count, legacy_status, view, attempts, budget,
                   warned, iface_cfg, peripheral>>

\* time.sleep(5); ap.rotate_credentials("startup_retry")
start_sleep ==
    /\ pc["main"] = "start_sleep"
    /\ now < BootTime + MaxTime
    /\ now' = now + 1
    /\ CallRotate("main", CurIface, "startup_retry", "start_ret2")
    /\ UNCHANGED <<config, running, ap_instances, global_config,
                   current_creds, last_manual_rotation, rotation_lock, status_file,
                   creds_file, trigger_file, hostapd_conf, rotations, cur,
                   upd, decision, client_count, legacy_status, view, budget,
                   warned, iface_cfg, peripheral>>

\* The retry returned: on failure ap.update_status("error", ...).
start_ret2 ==
    /\ pc["main"] = "start_ret2"
    /\ IF rot["main"].result
       THEN /\ pc' = [pc EXCEPT !["main"] = "start_next"]
            /\ UNCHANGED upd
       ELSE CallUpdateStatus("main", CurIface, "error", "Startup rotation failed",
                             "start_next")
    /\ rot' = [rot EXCEPT !["main"] = NoRot]
    /\ UNCHANGED <<now, config, running, ap_instances, global_config,
                   current_creds, last_manual_rotation, rotation_lock, status_file,
                   creds_file, trigger_file, hostapd_conf, rotations, cur,
                   decision, client_count, legacy_status, view, attempts, budget,
                   warned, iface_cfg, peripheral>>

start_next ==
    /\ pc["main"] = "start_next"
    /\ cur' = cur + 1
    /\ pc' = [pc EXCEPT !["main"] = "start_iface"]
    /\ UNCHANGED <<now, config, running, ap_instances, global_config,
                   current_creds, last_manual_rotation, rotation_lock, status_file,
                   creds_file, trigger_file, hostapd_conf, rotations, rot,
                   upd, decision, client_count, legacy_status, view, attempts, budget,
                   warned, iface_cfg, peripheral>>

\* The loop as `while True:`, never reading the running flag.
loop_head_Forever ==
    /\ pc["main"] = "loop_head"
    /\ pc' = [pc EXCEPT !["main"] = "tick_trigger"]
    /\ cur' = 1
    /\ UNCHANGED <<now, config, running, ap_instances, global_config,
                   current_creds, last_manual_rotation, rotation_lock, status_file,
                   creds_file, trigger_file, hostapd_conf, rotations, rot,
                   upd, decision, client_count, legacy_status, view, attempts, budget,
                   warned, iface_cfg, peripheral>>

\* while self.running:
loop_head ==
    /\ pc["main"] = "loop_head"
    /\ IF running
       THEN /\ pc' = [pc EXCEPT !["main"] = "tick_trigger"]
            /\ cur' = 1
       ELSE /\ pc' = [pc EXCEPT !["main"] = "stopped"]
            /\ UNCHANGED cur
    /\ UNCHANGED <<now, config, running, ap_instances, global_config,
                   current_creds, last_manual_rotation, rotation_lock, status_file,
                   creds_file, trigger_file, hostapd_conf, rotations, rot,
                   upd, decision, client_count, legacy_status, view, attempts, budget,
                   warned, iface_cfg, peripheral>>

\* check_trigger_file without the cooldown test.
TriggerAccepted_NoCooldown(i) == trigger_file[i]

\* check_trigger_file: the marker is there and the cooldown has elapsed.
TriggerAccepted(i) ==
    /\ trigger_file[i]
    /\ ~(now - last_manual_rotation[i] < global_config[i].manual_rotation_cooldown_sec)

\* check_trigger_file removing the marker only when it accepts it.
tick_trigger_KeepsRejected ==
    /\ pc["main"] = "tick_trigger"
    /\ IF cur > Len(Engines)
       THEN /\ pc' = [pc EXCEPT !["main"] = "tick_sleep"]
            /\ UNCHANGED <<trigger_file, last_manual_rotation, rot, attempts,
                           warned>>
       ELSE /\ trigger_file' = [trigger_file EXCEPT ![CurIface] =
                                  @ /\ ~TriggerAccepted(CurIface)]
            /\ IF TriggerAccepted(CurIface)
               THEN /\ last_manual_rotation' =
                           [last_manual_rotation EXCEPT ![CurIface] = now]
                    /\ CallRotate("main", CurIface, "manual_trigger", "tick_ret")
                    /\ UNCHANGED warned
               ELSE /\ pc' = [pc EXCEPT !["main"] = "tick_eval"]
                    /\ warned' = trigger_file[CurIface]
                    /\ UNCHANGED <<last_manual_rotation, rot, attempts>>
    /\ UNCHANGED <<now, config, running, ap_instances, global_config,
                   current_creds, rotation_lock, status_file,
                   creds_file, hostapd_conf, rotations, cur,
                   upd, decision, client_count, legacy_status, view,
                   budget, iface_cfg, peripheral>>

\* A cooldown kept once for the daemon: an accepted trigger stamps the time
\* of last manual rotation of every engine.
tick_trigger_SharedCooldown ==
    /\ pc["main"] = "tick_trigger"
    /\ IF cur > Len(Engines)
       THEN /\ pc' = [pc EXCEPT !["main"] = "tick_sleep"]
            /\ UNCHANGED <<trigger_file, last_manual_rotation, rot, attempts,
                           warned>>
       ELSE /\ trigger_file' = [trigger_file EXCEPT ![CurIface] = FALSE]
            /\ IF TriggerAccepted(CurIface)
               THEN /\ last_manual_rotation' = [i \in Ifaces |-> now]
                    /\ CallRotate("main", CurIface, "manual_trigger", "tick_ret")
                    /\ UNCHANGED warned
               ELSE /\ pc' = [pc EXCEPT !["main"] = "tick_eval"]
                    /\ warned' = trigger_file[CurIface]
                    /\ UNCHANGED <<last_manual_rotation, rot, attempts>>
    /\ UNCHANGED <<now, config, running, ap_instances, global_config,
                   current_creds, rotation_lock, status_file,
                   creds_file, hostapd_conf, rotations, cur,
                   upd, decision, client_count, legacy_status, view,
                   budget, iface_cfg, peripheral>>

\* if ap.check_trigger_file(): ap.rotate_credentials("manual_trigger")
tick_trigger ==
    /\ pc["main"] = "tick_trigger"
    /\ IF cur > Len(Engines)
       THEN /\ pc' = [pc EXCEPT !["main"] = "tick_sleep"]
            /\ UNCHANGED <<trigger_file, last_manual_rotation, rot, attempts,
                           warned>>
       ELSE /\ trigger_file' = [trigger_file EXCEPT ![CurIface] = FALSE]
            /\ IF TriggerAccepted(CurIface)
               THEN /\ last_manual_rotation' =
                           [last_manual_rotation EXCEPT ![CurIface] = now]
                    /\ CallRotate("main", CurIface, "manual_trigger", "tick_ret")
                    /\ UNCHANGED warned
               ELSE /\ pc' = [pc EXCEPT !["main"] = "tick_eval"]
                    /\ warned' = trigger_file[CurIface]
                    /\ UNCHANGED <<last_manual_rotation, rot, attempts>>
    /\ UNCHANGED <<now, config, running, ap_instances, global_config,
                   current_creds, rotation_lock, status_file,
                   creds_file, hostapd_conf, rotations, cur,
                   upd, decision, client_count, legacy_status, view,
                   budget, iface_cfg, peripheral>>

\* should_rotate removing the trigger marker it finds.
tick_eval_ConsumesTrigger ==
    /\ pc["main"] = "tick_eval"
    /\ \E n \in ClientCounts :
          /\ client_count' = n
          /\ decision' = should_rotate(current_creds[CurIface], now, n,
                                       global_config[CurIface])
    /\ IF decision'[1]
       THEN /\ CallRotate("main", CurIface, decision'[2], "tick_ret")
            /\ UNCHANGED upd
       ELSE /\ CallUpdateStatus("main", CurIface, "ready", Null, "tick_next")
            /\ UNCHANGED <<rot, attempts>>
    /\ warned' = FALSE
    /\ trigger_file' = [trigger_file EXCEPT ![CurIface] = FALSE]
    /\ UNCHANGED <<now, config, running, ap_instances, global_config,
                   current_creds, last_manual_rotation, rotation_lock, status_file,
                   creds_file, hostapd_conf, rotations, cur,
                   legacy_status, view, budget, iface_cfg, peripheral>>

\* The loop without its else branch: no update_status("ready") when
\* should_rotate answers False.
tick_eval_NoRefresh ==
    /\ pc["main"] = "tick_eval"
    /\ \E n \in ClientCounts :
          /\ client_count' = n
          /\ decision' = should_rotate(current_creds[CurIface], now, n,
                                       global_config[CurIface])
    /\ IF decision'[1]
       THEN /\ CallRotate("main", CurIface, decision'[2], "tick_ret")
            /\ UNCHANGED upd
       ELSE /\ pc' = [pc EXCEPT !["main"] = "tick_next"]
            /\ UNCHANGED <<rot, attempts, upd>>
    /\ warned' = FALSE
    /\ UNCHANGED <<now, config, running, ap_instances, global_config,
                   current_creds, last_manual_rotation, rotation_lock, status_file,
                   creds_file, trigger_file, hostapd_conf, rotations, cur,
                   legacy_status, view, budget, iface_cfg, peripheral>>

\* should_rotate, reason = ap.should_rotate()
tick_eval ==
    /\ pc["main"] = "tick_eval"
    /\ \E n \in ClientCounts :
          /\ client_count' = n
          /\ decision' = should_rotate(current_creds[CurIface], now, n,
                                       global_config[CurIface])
    /\ IF decision'[1]
       THEN /\ CallRotate("main", CurIface, decision'[2], "tick_ret")
            /\ UNCHANGED upd
       ELSE /\ CallUpdateStatus("main", CurIface, "ready", Null, "tick_next")
            /\ UNCHANGED <<rot, attempts>>
    /\ warned' = FALSE
    /\ UNCHANGED <<now, config, running, ap_instances, global_config,
                   current_creds, last_manual_rotation, rotation_lock, status_file,
                   creds_file, trigger_file, hostapd_conf, rotations, cur,
                   legacy_status, view, budget, iface_cfg, peripheral>>

\* The loop without the `continue` after a manual-trigger rotation: it goes on
\* to should_rotate for the same engine.
tick_ret_NoContinue ==
    /\ pc["main"] = "tick_ret"
    /\ IF rot["main"].result
       THEN rotations' = log_rotation(Creds(CurIface))
       ELSE UNCHANGED rotations
    /\ IF rot["main"].reason = "manual_trigger"
       THEN /\ pc' = [pc EXCEPT !["main"] = "tick_eval"]
            /\ UNCHANGED cur
       ELSE /\ pc' = [pc EXCEPT !["main"] = "tick_trigger"]
            /\ cur' = cur + 1
    /\ rot' = [rot EXCEPT !["main"] = NoRot]
    /\ decision' = <<FALSE, "">>
    /\ client_count' = 0
    /\ UNCHANGED <<now, config, running, ap_instances, global_config,
                   current_creds, last_manual_rotation, rotation_lock, status_file,
                   creds_file, trigger_file, hostapd_conf,
                   upd, legacy_status, view, attempts, budget,
                   warned, iface_cfg, peripheral>>

\* run() starting the cooldown only from a manual rotation that succeeded: a
\* failed one clears the time of the last manual rotation.
tick_ret_FailureClearsCooldown ==
    /\ pc["main"] = "tick_ret"
    /\ IF rot["main"].result
       THEN /\ rotations' = log_rotation(Creds(CurIface))
            /\ UNCHANGED last_manual_rotation
       ELSE /\ UNCHANGED rotations
            /\ last_manual_rotation' =
                   [last_manual_rotation EXCEPT ![CurIface] =
                       IF rot["main"].reason = "manual_trigger" THEN 0 ELSE @]
    /\ cur' = cur + 1
    /\ pc' = [pc EXCEPT !["main"] = "tick_trigger"]
    /\ rot' = [rot EXCEPT !["main"] = NoRot]
    /\ decision' = <<FALSE, "">>
    /\ client_count' = 0
    /\ UNCHANGED <<now, config, running, ap_instances, global_config,
                   current_creds, rotation_lock, status_file,
                   creds_file, trigger_file, hostapd_conf,
                   upd, legacy_status, view, attempts, budget,
                   warned, iface_cfg, peripheral>>

\* if ap.rotate_credentials(...): self.log_rotation(ap.current_creds)
tick_ret ==
    /\ pc["main"] = "tick_ret"
    /\ IF rot["main"].result
       THEN rotations' = log_rotation(Creds(CurIface))
       ELSE UNCHANGED rotations
    /\ cur' = cur + 1
    /\ pc' = [pc EXCEPT !["main"] = "tick_trigger"]
    /\ rot' = [rot EXCEPT !["main"] = NoRot]
    /\ decision' = <<FALSE, "">>
    /\ client_count' = 0
    /\ UNCHANGED <<now, config, running, ap_instances, global_config,
                   current_creds, last_manual_rotation, rotation_lock, status_file,
                   creds_file, trigger_file, hostapd_conf,
                   upd, legacy_status, view, attempts, budget,
                   warned, iface_cfg, peripheral>>

tick_next ==
    /\ pc["main"] = "tick_next"
    /\ cur' = cur + 1
    /\ pc' = [pc EXCEPT !["main"] = "tick_trigger"]
    /\ decision' = <<FALSE, "">>
    /\ client_count' = 0
    /\ UNCHANGED <<now, config, running, ap_instances, global_config,
                   current_creds, last_manual_rotation, rotation_lock, status_file,
                   creds_file, trigger_file, hostapd_conf, rotations, rot,
                   upd, legacy_status, view, attempts, budget,
                   warned, iface_cfg, peripheral>>

\* time.sleep(1)
tick_sleep ==
    /\ pc["main"] = "tick_sleep"
    /\ now < BootTime + MaxTime
    /\ now' = now + 1
    /\ pc' = [pc EXCEPT !["main"] = "loop_head"]
    /\ UNCHANGED <<config, running, ap_instances, global_config,
                   current_creds, last_manual_rotation, rotation_lock, status_file,
                   creds_file, trigger_file, hostapd_conf, rotations, cur, rot,
                   upd, decision, client_count, legacy_status, view, attempts, budget,
                   warned, iface_cfg, peripheral>>

Main ==
    \/ start_iface
    \/ start_ret1
    \/ start_sleep
    \/ start_ret2
    \/ start_next
    \/ loop_head
    \/ tick_trigger
    \/ tick_eval
    \/ tick_ret
    \/ tick_next
    \/ tick_sleep
    \/ Rotate("main")

\* ------------------------------------------------------------- signals
\* SIGTERM, SIGINT
_handle_signal ==
    /\ running
    /\ running' = FALSE
    /\ UNCHANGED <<now, config, ap_instances, global_config,
                   current_creds, last_manual_rotation, rotation_lock, status_file,
                   creds_file, trigger_file, hostapd_conf, rotations, pc, cur, rot,
                   upd, decision, client_count, legacy_status, view, attempts, budget,
                   warned, iface_cfg, peripheral>>

\* A reload that builds the engines anew, as _init_ap_instances does.
_handle_reload_RebuildsEngines ==
    /\ \E c \in ConfigSet :
          /\ c # config
          /\ config' = c
          /\ global_config' = [i \in Ifaces |->
                                  IF i \in ap_instances THEN c ELSE global_config[i]]
          /\ interfaces' = _load_interfaces(interfaces, c)
          /\ ap_config' = interfaces'
    /\ current_creds' = [i \in Ifaces |-> <<>>]
    /\ last_manual_rotation' = [i \in Ifaces |-> 0]
    /\ UNCHANGED <<now, running, ap_instances, rotation_lock, status_file,
                   creds_file, trigger_file, hostapd_conf, rotations, pc, cur, rot,
                   upd, decision, client_count, legacy_status, view, attempts, budget,
                   warned, peripheral>>

\* A reload that replaces self.config and leaves the engines with the
\* configuration they were built with.
_handle_reload_ConfigOnly ==
    /\ \E c \in ConfigSet :
          /\ c # config
          /\ config' = c
          /\ interfaces' = _load_interfaces(interfaces, c)
    /\ UNCHANGED <<now, running, ap_instances, global_config, ap_config,
                   current_creds, last_manual_rotation, rotation_lock, status_file,
                   creds_file, trigger_file, hostapd_conf, rotations, pc, cur, rot,
                   upd, decision, client_count, legacy_status, view, attempts, budget,
                   warned, peripheral>>

\* SIGHUP
_handle_reload ==
    /\ \E c \in ConfigSet :
          /\ c # config
          /\ config' = c
          /\ global_config' = [i \in Ifaces |->
                                  IF i \in ap_instances THEN c ELSE global_config[i]]
          /\ interfaces' = _load_interfaces(interfaces, c)
          \* every ap.config is one of the dictionaries updated in place
          /\ ap_config' = interfaces'
    /\ UNCHANGED <<now, running, ap_instances,
                   current_creds, last_manual_rotation, rotation_lock, status_file,
                   creds_file, trigger_file, hostapd_conf, rotations, pc, cur, rot,
                   upd, decision, client_count, legacy_status, view, attempts, budget,
                   warned, peripheral>>

\* ------------------------------------------------------------- environment
\* The LED renderer or an operator creates trigger-rotate-<iface>.
TouchTrigger ==
    /\ \E i \in ap_instances :
          /\ ~trigger_file[i]
          /\ trigger_file' = [trigger_file EXCEPT ![i] = TRUE]
    /\ UNCHANGED <<now, config, running, ap_instances, global_config,
                   current_creds, last_manual_rotation, rotation_lock, status_file,
                   creds_file, hostapd_conf, rotations, pc, cur, rot,
                   upd, decision, client_count, legacy_status, view, attempts, budget,
                   warned, iface_cfg, peripheral>>


\* ------------------------------------------------------------- the daemon
\* The LED monitor before it has read a status.
NoLedStatus == [interface |-> "", status |-> <<>>]

NoView ==
    [interface |-> "", enabled |-> FALSE, state |-> "", ssid |-> "",
     created_at |-> 0, expires_at |-> 0, last_error |-> Null]

InitDaemon(cfgs, b) ==
    /\ now = BootTime
    /\ config \in cfgs
    /\ running = TRUE
    /\ ap_instances = {"wlan0"}
    /\ global_config = [i \in Ifaces |-> config]
    /\ current_creds = [i \in Ifaces |-> <<>>]
    /\ last_manual_rotation = [i \in Ifaces |-> 0]
    /\ rotation_lock = [i \in Ifaces |-> NoThread]
    /\ status_file = [i \in Ifaces |-> FileAbsent]
    /\ creds_file = [i \in Ifaces |-> FileAbsent]
    /\ trigger_file = [i \in Ifaces |-> FALSE]
    /\ hostapd_conf = [i \in Ifaces |-> FileAbsent]
    /\ rotations = <<>>
    /\ pc = [t \in Threads |-> IF t = "main" THEN "start_iface" ELSE "idle"]
    /\ cur = 1
    /\ rot = [t \in Threads |-> NoRot]
    /\ upd = [t \in Threads |-> NoUpd]
    /\ decision = <<FALSE, "">>
    /\ client_count = 0
    /\ legacy_status = FileAbsent
    /\ view = NoView
    /\ attempts = 0
    /\ budget = b
    /\ warned = FALSE
    /\ interfaces = _load_interfaces(DefaultInterfaces, config)
    /\ ap_config = interfaces
    /\ host_ifaces = {"wlan0"}
    /\ qr_args = NoArgs
    /\ qr_string = <<>>
    /\ led_status = NoLedStatus

Init == InitDaemon(ConfigSet, MaxAttempts)

Next == Main \/ TouchTrigger

Spec == Init /\ [][Next]_vars

\* ------------------------------------------------------------- signals arriving
NextSignals == Next \/ _handle_signal \/ _handle_reload

SpecSignals == Init /\ [][NextSignals]_vars

\* ------------------------------------------------------------- reloads arriving
InitReload == InitDaemon({DefaultConfig}, MaxAttemptsMT)

NextReload == Next \/ _handle_reload

SpecReload == InitReload /\ [][NextReload]_vars

\* ------------------------------------------------------------- _init_ap_instances
\* for interface, iface_config in interfaces_config.items(): one interface of
\* the loop.  An interface skipped for dual_ap_mode or for enabled = false
\* has no engine built and nothing written; one the host does not have gets
\* update_status("disabled", "Interface not found").  After the loop,
\* sys.exit(1) when no engine was kept.
_init_ap_instances ==
    /\ pc["main"] = "init_iface"
    /\ IF cur > Len(IfaceOrder)
       THEN /\ pc' = [pc EXCEPT !["main"] =
                         IF ap_instances = {} THEN "exited" ELSE "start_iface"]
            /\ cur' = 1
            /\ UNCHANGED <<ap_instances, upd>>
       ELSE LET i == IfaceOrder[cur] IN
            IF \/ (i = "wlan1" /\ ~config.dual_ap_mode)
               \/ ~interfaces[i].enabled
            THEN /\ cur' = cur + 1
                 /\ UNCHANGED <<ap_instances, upd, pc>>
            ELSE IF i \notin host_ifaces
            THEN /\ CallUpdateStatus("main", i, "disabled", "Interface not found",
                                     "init_next")
                 /\ UNCHANGED <<ap_instances, cur>>
            ELSE /\ ap_instances' = ap_instances \cup {i}
                 /\ cur' = cur + 1
                 /\ UNCHANGED <<upd, pc>>
    /\ UNCHANGED <<now, config, running, global_config,
                   current_creds, last_manual_rotation, rotation_lock, status_file,
                   creds_file, trigger_file, hostapd_conf, rotations, rot,
                   decision, client_count, legacy_status, view, attempts, budget,
                   warned, iface_cfg, peripheral>>

\* `continue` after the disabled status was written.
init_next ==
    /\ pc["main"] = "init_next"
    /\ cur' = cur + 1
    /\ pc' = [pc EXCEPT !["main"] = "init_iface"]
    /\ UNCHANGED <<now, config, running, ap_instances, global_config,
                   current_creds, last_manual_rotation, rotation_lock, status_file,
                   creds_file, trigger_file, hostapd_conf, rotations, rot,
                   upd, decision, client_count, legacy_status, view, attempts, budget,
                   warned, iface_cfg, peripheral>>

\* The configurations the daemon is started under when the interfaces are
\* probed: single and dual mode.
ProbeConfigSet == {DefaultConfig, [DefaultConfig EXCEPT !.dual_ap_mode = TRUE]}

\* The "enabled" keys a configuration file can give the two interfaces.
ProbeInterfaces ==
    {[i \in Ifaces |-> [DefaultInterfaces[i] EXCEPT !.enabled = e[i]]] :
        e \in [Ifaces -> BOOLEAN]}

\* The daemon after _load_config and before _init_ap_instances, on a host
\* with any of the interfaces.
InitProbe ==
    /\ now = BootTime
    /\ config \in ProbeConfigSet
    /\ running = TRUE
    /\ ap_instances = {}
    /\ global_config = [i \in Ifaces |-> config]
    /\ current_creds = [i \in Ifaces |-> <<>>]
    /\ last_manual_rotation = [i \in Ifaces |-> 0]
    /\ rotation_lock = [i \in Ifaces |-> NoThread]
    /\ status_file = [i \in Ifaces |-> FileAbsent]
    /\ creds_file = [i \in Ifaces |-> FileAbsent]
    /\ trigger_file = [i \in Ifaces |-> FALSE]
    /\ hostapd_conf = [i \in Ifaces |-> FileAbsent]
    /\ rotations = <<>>
    /\ pc = [t \in Threads |-> IF t = "main" THEN "init_iface" ELSE "idle"]
    /\ cur = 1
    /\ rot = [t \in Threads |-> NoRot]
    /\ upd = [t \in Threads |-> NoUpd]
    /\ decision = <<FALSE, "">>
    /\ client_count = 0
    /\ legacy_status = FileAbsent
    /\ view = NoView
    /\ attempts = 0
    /\ budget = MaxAttemptsMT
    /\ warned = FALSE
    /\ interfaces \in ProbeInterfaces
    /\ ap_config = interfaces
    /\ host_ifaces \in SUBSET Ifaces
    /\ qr_args = NoArgs
    /\ qr_string = <<>>
    /\ led_status = NoLedStatus

NextProbe == _init_ap_instances \/ init_next \/ Main \/ _handle_reload

SpecProbe == InitProbe /\ [][NextProbe]_vars

\* ------------------------------------------------------------- make_qr.py
\* Strings are sequences of characters.  The characters a name or a
\* passphrase is drawn from: the five that are escaped and an ordinary one.
Alphabet == {"\\", ";", ",", "\"", ":", "a"}

Strings == UNION {[1..n -> Alphabet] : n \in 0..MaxStrLen}

\* The passphrase a\b;c,d"e:f.
LongPassphrase == <<"a", "\\", "b", ";", "c", ",", "d", "\"", "e", ":", "f">>

\* str.replace(old, new) for a one-character old.
RECURSIVE str_replace(_, _, _)
str_replace(s, old, new) ==
    IF s = <<>> THEN <<>>
    ELSE (IF Head(s) = old THEN new ELSE <<Head(s)>>)
            \o str_replace(Tail(s), old, new)

\* escape_wifi_string with the backslash replaced last.
escape_wifi_string_BackslashLast(s) ==
    LET r1 == str_replace(s, ";", <<"\\", ";">>)
        r2 == str_replace(r1, ",", <<"\\", ",">>)
        r3 == str_replace(r2, "\"", <<"\\", "\"">>)
        r4 == str_replace(r3, ":", <<"\\", ":">>)
    IN  str_replace(r4, "\\", <<"\\", "\\">>)

\* escape_wifi_string: five replacements in the order of lines 54-58.
escape_wifi_string(s) ==
    LET r1 == str_replace(s, "\\", <<"\\", "\\">>)
        r2 == str_replace(r1, ";", <<"\\", ";">>)
        r3 == str_replace(r2, ",", <<"\\", ",">>)
        r4 == str_replace(r3, "\"", <<"\\", "\"">>)
    IN  str_replace(r4, ":", <<"\\", ":">>)

\* f"WIFI:T:{security};S:{escaped_ssid};P:{escaped_password};;" with WPA.
generate_wifi_qr_string(ssid, password) ==
    <<"W", "I", "F", "I", ":", "T", ":", "W", "P", "A", ";", "S", ":">>
       \o escape_wifi_string(ssid)
       \o <<";", "P", ":">>
       \o escape_wifi_string(password)
       \o <<";", ";">>

\* wifi_string = generate_wifi_qr_string(ssid, password)
generate_qr_code ==
    /\ qr_string = <<>>
    /\ qr_string' = generate_wifi_qr_string(qr_args.ssid, qr_args.password)
    /\ UNCHANGED <<now, config, running, ap_instances, global_config,
                   current_creds, last_manual_rotation, rotation_lock, status_file,
                   creds_file, trigger_file, hostapd_conf, rotations, pc, cur, rot,
                   upd, decision, client_count, legacy_status, view, attempts, budget,
                   warned, iface_cfg, host_ifaces, qr_args, led_status>>

\* make_qr.py called with any name and passphrase.
InitEscape ==
    /\ now = BootTime
    /\ config = DefaultConfig
    /\ running = TRUE
    /\ ap_instances = {"wlan0"}
    /\ global_config = [i \in Ifaces |-> config]
    /\ current_creds = [i \in Ifaces |-> <<>>]
    /\ last_manual_rotation = [i \in Ifaces |-> 0]
    /\ rotation_lock = [i \in Ifaces |-> NoThread]
    /\ status_file = [i \in Ifaces |-> FileAbsent]
    /\ creds_file = [i \in Ifaces |-> FileAbsent]
    /\ trigger_file = [i \in Ifaces |-> FALSE]
    /\ hostapd_conf = [i \in Ifaces |-> FileAbsent]
    /\ rotations = <<>>
    /\ pc = [t \in Threads |-> "idle"]
    /\ cur = 1
    /\ rot = [t \in Threads |-> NoRot]
    /\ upd = [t \in Threads |-> NoUpd]
    /\ decision = <<FALSE, "">>
    /\ client_count = 0
    /\ legacy_status = FileAbsent
    /\ view = NoView
    /\ attempts = 0
    /\ budget = MaxAttempts
    /\ warned = FALSE
    /\ interfaces = DefaultInterfaces
    /\ ap_config = interfaces
    /\ host_ifaces = {"wlan0"}
    /\ qr_args \in [ssid : Strings, password : Strings \cup {LongPassphrase}]
    /\ qr_string = <<>>
    /\ led_status = NoLedStatus

NextEscape == generate_qr_code

SpecEscape == InitEscape /\ [][NextEscape]_vars

\* ------------------------------------------------------------- a scenario
\* threshold 5, minimum age 120 s, interval 300 s.
ScenarioConfig ==
    [DefaultConfig EXCEPT !.client_threshold = 5,
                          !.min_time_after_clients_sec = 120,
                          !.rotation_interval_sec = 300,
                          !.log_retention_count = 3]

\* The times the ticks of the scenario happen at, and the stations iw reports.
ScenarioTimes == {0, 100, 150, 300, 449, 451}

ScenarioClients == {0, 4, 6}

\* Credentials whose expiry is carried over from the credentials they replace.
RotatedCreds_ExpiryFromFirst(creds, i, k, t, reason, cfg) ==
    Credentials(i, generate_ssid(k, cfg), generate_password(k), t,
                IF creds = <<>> THEN t + cfg.rotation_interval_sec
                ELSE creds[1].expires_at,
                reason)

\* The credentials a rotation that succeeds at time t assigns (lines 327-351).
RotatedCreds(creds, i, k, t, reason, cfg) ==
    Credentials(i, generate_ssid(k, cfg), generate_password(k), t,
                t + cfg.rotation_interval_sec, reason)

\* One engine of a tick, with every step of the rotation succeeding:
\* should_rotate, and on True rotate_credentials(reason) and log_rotation.
evaluate_then_rotate ==
    /\ pc["main"] = "tick_eval"
    /\ \E n \in ScenarioClients :
          /\ client_count' = n
          /\ decision' = should_rotate(current_creds[CurIface], now, n,
                                       global_config[CurIface])
    /\ IF decision'[1]
       THEN \E k \in 1..MaxRand :
               /\ current_creds' =
                     [current_creds EXCEPT ![CurIface] =
                         <<RotatedCreds(@, CurIface, k, now, decision'[2],
                                        global_config[CurIface])>>]
               /\ rotations' = log_rotation(current_creds'[CurIface][1])
       ELSE UNCHANGED <<current_creds, rotations>>
    /\ pc' = [pc EXCEPT !["main"] = "tick_sleep"]
    /\ UNCHANGED <<now, config, running, ap_instances, global_config,
                   last_manual_rotation, rotation_lock, status_file,
                   creds_file, trigger_file, hostapd_conf, cur, rot,
                   upd, legacy_status, view, attempts, budget,
                   warned, iface_cfg, peripheral>>

\* The sleeps up to the next tick of the scenario.
scenario_sleep ==
    /\ pc["main"] = "tick_sleep"
    /\ \E t \in ScenarioTimes : t > now /\ now' = t
    /\ pc' = [pc EXCEPT !["main"] = "tick_eval"]
    /\ UNCHANGED <<config, running, ap_instances, global_config,
                   current_creds, last_manual_rotation, rotation_lock, status_file,
                   creds_file, trigger_file, hostapd_conf, rotations, cur, rot,
                   upd, decision, client_count, legacy_status, view, attempts, budget,
                   warned, iface_cfg, peripheral>>

\* A fresh engine at t = 0, about to be evaluated.
InitScenario ==
    /\ now = 0
    /\ config = ScenarioConfig
    /\ running = TRUE
    /\ ap_instances = {"wlan0"}
    /\ global_config = [i \in Ifaces |-> config]
    /\ current_creds = [i \in Ifaces |-> <<>>]
    /\ last_manual_rotation = [i \in Ifaces |-> 0]
    /\ rotation_lock = [i \in Ifaces |-> NoThread]
    /\ status_file = [i \in Ifaces |-> FileAbsent]
    /\ creds_file = [i \in Ifaces |-> FileAbsent]
    /\ trigger_file = [i \in Ifaces |-> FALSE]
    /\ hostapd_conf = [i \in Ifaces |-> FileAbsent]
    /\ rotations = <<>>
    /\ pc = [t \in Threads |-> IF t = "main" THEN "tick_eval" ELSE "idle"]
    /\ cur = 1
    /\ rot = [t \in Threads |-> NoRot]
    /\ upd = [t \in Threads |-> NoUpd]
    /\ decision = <<FALSE, "">>
    /\ client_count = 0
    /\ legacy_status = FileAbsent
    /\ view = NoView
    /\ attempts = 0
    /\ budget = MaxAttempts
    /\ warned = FALSE
    /\ interfaces = DefaultInterfaces
    /\ ap_config = interfaces
    /\ host_ifaces = {"wlan0"}
    /\ qr_args = NoArgs
    /\ qr_string = <<>>
    /\ led_status = NoLedStatus

NextScenario == evaluate_then_rotate \/ scenario_sleep

SpecScenario == InitScenario /\ [][NextScenario]_vars

\* ------------------------------------------------------------- a failing tick
\* An exception leaving the try block of the loop (lines 556-575): the
\* statements of a tick that no inner handler guards are
\* self.trigger_file.exists() in check_trigger_file and the body of
\* should_rotate; rotate_credentials, update_status and log_rotation catch
\* their own.
tick_raise ==
    /\ pc["main"] \in {"tick_trigger", "tick_eval"}
    /\ cur <= Len(Engines)
    /\ pc' = [pc EXCEPT !["main"] = "tick_except"]
    /\ UNCHANGED <<now, config, running, ap_instances, global_config,
                   current_creds, last_manual_rotation, rotation_lock, status_file,
                   creds_file, trigger_file, hostapd_conf, rotations, cur, rot,
                   upd, decision, client_count, legacy_status, view, attempts, budget,
                   warned, iface_cfg, peripheral>>

\* An exception handler that lets the exception leave run().
tick_except_Reraises ==
    /\ pc["main"] = "tick_except"
    /\ pc' = [pc EXCEPT !["main"] = "stopped"]
    /\ UNCHANGED <<now, config, running, ap_instances, global_config,
                   current_creds, last_manual_rotation, rotation_lock, status_file,
                   creds_file, trigger_file, hostapd_conf, rotations, cur, rot,
                   upd, decision, client_count, legacy_status, view, attempts, budget,
                   warned, iface_cfg, peripheral>>

\* except Exception as e: logger.error(...); time.sleep(5)
tick_except ==
    /\ pc["main"] = "tick_except"
    /\ now < BootTime + MaxTime
    /\ now' = now + 1
    /\ pc' = [pc EXCEPT !["main"] = "loop_head"]
    /\ UNCHANGED <<config, running, ap_instances, global_config,
                   current_creds, last_manual_rotation, rotation_lock, status_file,
                   creds_file, trigger_file, hostapd_conf, rotations, cur, rot,
                   upd, decision, client_count, legacy_status, view, attempts, budget,
                   warned, iface_cfg, peripheral>>

InitFaulty == InitDaemon({DefaultConfig}, MaxAttemptsMT)

\* The main thread with the handler of the loop.
MainFaulty == Main \/ tick_except

NextFaulty == MainFaulty \/ tick_raise \/ _handle_signal

SpecFaulty == InitFaulty /\ [][NextFaulty]_vars /\ WF_vars(MainFaulty)

\* ------------------------------------------------------------- dual mode
\* dual_ap_mode with both interfaces enabled and present: _init_ap_instances
\* has kept an engine for each.
DualConfig == [DefaultConfig EXCEPT !.dual_ap_mode = TRUE]

DualInterfaces == [i \in Ifaces |-> [DefaultInterfaces[i] EXCEPT !.enabled = TRUE]]

InitDual ==
    /\ now = BootTime
    /\ config = DualConfig
    /\ running = TRUE
    /\ ap_instances = Ifaces
    /\ global_config = [i \in Ifaces |-> config]
    /\ current_creds = [i \in Ifaces |-> <<>>]
    /\ last_manual_rotation = [i \in Ifaces |-> 0]
    /\ rotation_lock = [i \in Ifaces |-> NoThread]
    /\ status_file = [i \in Ifaces |-> FileAbsent]
    /\ creds_file = [i \in Ifaces |-> FileAbsent]
    /\ trigger_file = [i \in Ifaces |-> FALSE]
    /\ hostapd_conf = [i \in Ifaces |-> FileAbsent]
    /\ rotations = <<>>
    /\ pc = [t \in Threads |-> IF t = "main" THEN "start_iface" ELSE "idle"]
    /\ cur = 1
    /\ rot = [t \in Threads |-> NoRot]
    /\ upd = [t \in Threads |-> NoUpd]
    /\ decision = <<FALSE, "">>
    /\ client_count = 0
    /\ legacy_status = FileAbsent
    /\ view = NoView
    /\ attempts = 0
    /\ budget = MaxAttempts
    /\ warned = FALSE
    /\ interfaces = DualInterfaces
    /\ ap_config = interfaces
    /\ host_ifaces = Ifaces
    /\ qr_args = NoArgs
    /\ qr_string = <<>>
    /\ led_status = NoLedStatus

SpecDual == InitDual /\ [][Next]_vars

\* ------------------------------------------------------------- a restart of the daemon
\* A restart that finds the time of last manual rotation where the old
\* process left it.
daemon_restart_KeepsCooldown ==
    /\ pc["main"] = "stopped"
    /\ running' = TRUE
    /\ current_creds' = [i \in Ifaces |-> <<>>]
    /\ pc' = [pc EXCEPT !["main"] = "start_iface"]
    /\ cur' = 1
    /\ UNCHANGED <<now, config, ap_instances, global_config, last_manual_rotation,
                   rotation_lock, status_file, creds_file, trigger_file, hostapd_conf,
                   rotations, rot, upd, decision, client_count, legacy_status, view,
                   attempts, budget, warned, iface_cfg, peripheral>>

\* The stopped daemon is started again: main() builds a new APRotationDaemon,
\* whose engines start with current_creds = None and
\* last_manual_rotation = 0.0; the files of the old process are still there.
daemon_restart ==
    /\ pc["main"] = "stopped"
    /\ running' = TRUE
    /\ current_creds' = [i \in Ifaces |-> <<>>]
    /\ last_manual_rotation' = [i \in Ifaces |-> 0]
    /\ pc' = [pc EXCEPT !["main"] = "start_iface"]
    /\ cur' = 1
    /\ UNCHANGED <<now, config, ap_instances, global_config,
                   rotation_lock, status_file, creds_file, trigger_file, hostapd_conf,
                   rotations, rot, upd, decision, client_count, legacy_status, view,
                   attempts, budget, warned, iface_cfg, peripheral>>

InitRestart == InitDaemon({DefaultConfig}, MaxAttempts + 1)

NextRestart == Next \/ _handle_signal \/ daemon_restart

SpecRestart == InitRestart /\ [][NextRestart]_vars

\* ------------------------------------------------------------- shutdown
InitShutdown == InitDaemon({DefaultConfig}, MaxAttemptsMT)

NextShutdown == Next \/ _handle_signal

\* The main thread is the process's only thread: it always gets to take its
\* next step.
SpecShutdown == InitShutdown /\ [][NextShutdown]_vars /\ WF_vars(Main)

\* ------------------------------------------------------------- a second caller
\* Another thread of the process calls rotate_credentials on an engine.
ext_call ==
    /\ pc["ext"] = "idle"
    /\ \E i \in ap_instances : CallRotate("ext", i, "external", "ext_ret")
    /\ UNCHANGED <<now, config, running, ap_instances, global_config,
                   current_creds, last_manual_rotation, rotation_lock, status_file,
                   creds_file, trigger_file, hostapd_conf, rotations, cur,
                   upd, decision, client_count, legacy_status, view, budget,
                   warned, iface_cfg, peripheral>>

ext_ret ==
    /\ pc["ext"] = "ext_ret"
    /\ pc' = [pc EXCEPT !["ext"] = "idle"]
    /\ rot' = [rot EXCEPT !["ext"] = NoRot]
    /\ UNCHANGED <<now, config, running, ap_instances, global_config,
                   current_creds, last_manual_rotation, rotation_lock, status_file,
                   creds_file, trigger_file, hostapd_conf, rotations, cur,
                   upd, decision, client_count, legacy_status, view, attempts, budget,
                   warned, iface_cfg, peripheral>>

Ext == ext_call \/ ext_ret \/ Rotate("ext")

InitMT == InitDaemon({DefaultConfig}, MaxAttemptsMT)

NextMT == Main \/ Ext

SpecMT == InitMT /\ [][NextMT]_vars

\* ------------------------------------------------------------- any configuration file
\* _load_config merges whatever the configuration file holds into the defaults
\* and validates no value: a retention or an interval of 0 is loaded as given.
UncheckedConfigSet ==
    {[DefaultConfig EXCEPT !.log_retention_count = 0],
     [DefaultConfig EXCEPT !.rotation_interval_sec = 0]}

InitUnchecked == InitDaemon(UncheckedConfigSet, MaxAttempts)

SpecUnchecked == InitUnchecked /\ [][Next]_vars

\* ------------------------------------------------------------- the status reader
JSONDecodeError == "Expecting value: line 1 column 1 (char 0)"

\* The web view reading the interface's own file only.
get_interface_status_NoFallback(i) ==
    LET f == status_file[i]
        default_status ==
            [interface |-> i, enabled |-> FALSE, state |-> "unknown", ssid |-> "",
             created_at |-> 0, expires_at |-> 0, last_error |-> Null]
    IN  IF f.kind = "absent" THEN default_status
        ELSE IF f.kind = "empty"
             THEN [default_status EXCEPT !.last_error = JSONDecodeError]
             ELSE [interface |-> f.data.interface, enabled |-> TRUE,
                   state |-> f.data.state, ssid |-> f.data.ssid,
                   created_at |-> f.data.created_at,
                   expires_at |-> f.data.expires_at,
                   last_error |-> f.data.last_error]

\* get_interface_status of the web view: the dictionary it returns.
get_interface_status(i) ==
    LET f == IF status_file[i].kind = "absent" /\ i = "wlan0"
             THEN legacy_status ELSE status_file[i]
        default_status ==
            [interface |-> i, enabled |-> FALSE, state |-> "unknown", ssid |-> "",
             created_at |-> 0, expires_at |-> 0, last_error |-> Null]
    IN  IF f.kind = "absent" THEN default_status
        ELSE IF f.kind = "empty"
             THEN [default_status EXCEPT !.last_error = JSONDecodeError]
             ELSE [interface |-> f.data.interface, enabled |-> TRUE,
                   state |-> f.data.state, ssid |-> f.data.ssid,
                   created_at |-> f.data.created_at,
                   expires_at |-> f.data.expires_at,
                   last_error |-> f.data.last_error]

read_status ==
    /\ \E i \in Ifaces : view' = get_interface_status(i)
    /\ UNCHANGED <<now, config, running, ap_instances, global_config,
                   current_creds, last_manual_rotation, rotation_lock, status_file,
                   creds_file, trigger_file, hostapd_conf, rotations, pc, cur, rot,
                   upd, decision, client_count, legacy_status, attempts, budget,
                   warned, iface_cfg, peripheral>>

\* SenseHatMonitor.get_interface_status: <<>> is None, returned when no file
\* is found and when the file cannot be read as JSON.
SenseHatMonitor_get_interface_status(i) ==
    LET f == IF status_file[i].kind = "absent" /\ i = "wlan0"
                  /\ legacy_status.kind # "absent"
             THEN legacy_status ELSE status_file[i]
    IN  IF f.kind = "json" THEN <<f.data>> ELSE <<>>

\* status = self.get_interface_status(interface) in the LED monitor.
led_read_status ==
    /\ \E i \in Ifaces :
          led_status' = [interface |-> i,
                         status |-> SenseHatMonitor_get_interface_status(i)]
    /\ UNCHANGED <<now, config, running, ap_instances, global_config,
                   current_creds, last_manual_rotation, rotation_lock, status_file,
                   creds_file, trigger_file, hostapd_conf, rotations, pc, cur, rot,
                   upd, decision, client_count, legacy_status, view, attempts, budget,
                   warned, iface_cfg, host_ifaces, qr_args, qr_string>>

\* The status files a reader can find for an interface: none, one being
\* written, or one of an engine that has no credentials yet.
StatusFiles(i) ==
    {FileAbsent, FileEmpty}
       \cup {FileJson(InterfaceStatus(i, "rotating", Null, n)) : n \in ClientCounts}
       \cup {FileJson(InterfaceStatus(i, "error", e, 0)) :
                e \in {"Failed to write hostapd config", "Failed to restart hostapd"}}
       \cup {FileJson(InterfaceStatus(i, "disabled", "Interface not found", 0))}

\* status.json: none, or the status of wlan0 left by a single-interface
\* installation.
LegacyFiles ==
    {FileAbsent}
       \cup {FileJson(InterfaceStatus("wlan0", "rotating", Null, n)) : n \in ClientCounts}
       \cup {FileJson(InterfaceStatus("wlan0", "error", "Failed to restart hostapd", 0))}

\* The readers started on a run directory in any of these states.
InitFallback ==
    /\ now = BootTime
    /\ config = DefaultConfig
    /\ running = TRUE
    /\ ap_instances = {"wlan0"}
    /\ global_config = [i \in Ifaces |-> config]
    /\ current_creds = [i \in Ifaces |-> <<>>]
    /\ last_manual_rotation = [i \in Ifaces |-> 0]
    /\ rotation_lock = [i \in Ifaces |-> NoThread]
    /\ interfaces = DefaultInterfaces
    /\ ap_config = interfaces
    /\ status_file \in [Ifaces -> UNION {StatusFiles(i) : i \in Ifaces}]
    /\ \A i \in Ifaces : status_file[i] \in StatusFiles(i)
    /\ creds_file = [i \in Ifaces |-> FileAbsent]
    /\ trigger_file = [i \in Ifaces |-> FALSE]
    /\ hostapd_conf = [i \in Ifaces |-> FileAbsent]
    /\ rotations = <<>>
    /\ pc = [t \in Threads |-> "idle"]
    /\ cur = 1
    /\ rot = [t \in Threads |-> NoRot]
    /\ upd = [t \in Threads |-> NoUpd]
    /\ decision = <<FALSE, "">>
    /\ client_count = 0
    /\ legacy_status \in LegacyFiles
    /\ view = NoView
    /\ attempts = 0
    /\ budget = MaxAttempts
    /\ warned = FALSE
    /\ host_ifaces = {"wlan0"}
    /\ qr_args = NoArgs
    /\ qr_string = <<>>
    /\ led_status = NoLedStatus

NextFallback == read_status \/ led_read_status

SpecFallback == InitFallback /\ [][NextFallback]_vars

InitReader == InitDaemon({DefaultConfig}, MaxAttempts)

NextReader == Main \/ read_status

SpecReader == InitReader /\ [][NextReader]_vars

\* ------------------------------------------------------------- rotations that raise
InitRaise == InitDaemon({DefaultConfig}, MaxAttemptsMT)

NextRaise == Main \/ Ext \/ (\E t \in Threads : rc_raise(t))

\* Each thread of the process gets to take its next step.
SpecRaise == InitRaise /\ [][NextRaise]_vars /\ WF_vars(Main) /\ WF_vars(Ext)

\* ------------------------------------------------------------- should_rotate alone
\* Every engine state should_rotate can be called in: no credentials, or
\* credentials created at or before now that expire up to MaxTime later.
InitEval ==
    /\ now \in BootTime..(BootTime + MaxTime)
    /\ config \in EvalConfigSet
    /\ running = TRUE
    /\ ap_instances = {"wlan0"}
    /\ global_config = [i \in Ifaces |-> config]
    /\ \E c \in {<<>>} \cup
                {<<Credentials("wlan0", generate_ssid(1, config), generate_password(1),
                               ca, ca + d, "startup")>> :
                    ca \in BootTime..now, d \in 0..MaxTime} :
          current_creds = [i \in Ifaces |-> IF i = "wlan0" THEN c ELSE <<>>]
    /\ last_manual_rotation = [i \in Ifaces |-> 0]
    /\ rotation_lock = [i \in Ifaces |-> NoThread]
    /\ status_file = [i \in Ifaces |-> FileAbsent]
    /\ creds_file = [i \in Ifaces |-> FileAbsent]
    /\ trigger_file = [i \in Ifaces |-> FALSE]
    /\ hostapd_conf = [i \in Ifaces |-> FileAbsent]
    /\ rotations = <<>>
    /\ pc = [t \in Threads |-> IF t = "main" THEN "tick_eval" ELSE "idle"]
    /\ cur = 1
    /\ rot = [t \in Threads |-> NoRot]
    /\ upd = [t \in Threads |-> NoUpd]
    /\ decision = <<FALSE, "">>
    /\ client_count = 0
    /\ legacy_status = FileAbsent
    /\ view = NoView
    /\ attempts = 0
    /\ budget = MaxAttempts
    /\ warned = FALSE
    /\ interfaces = DefaultInterfaces
    /\ ap_config = interfaces
    /\ host_ifaces = {"wlan0"}
    /\ qr_args = NoArgs
    /\ qr_string = <<>>
    /\ led_status = NoLedStatus

NextEval == tick_eval

SpecEval == InitEval /\ [][NextEval]_vars

\* ------------------------------------------------------------- properties
RotatePcs ==
    {"rc_generate", "rc_write_config", "rc_qr", "rc_restart", "rc_commit",
     "rc_save", "rc_done", "rc_config_failed", "rc_restart_failed", "rc_exception"}

\* Thread t holds the lock of its engine: it is inside the with block.
InRotate(t) ==
    \/ pc[t] \in RotatePcs
    \/ pc[t] \in {"us_open", "us_dump"} /\ upd[t].ret \in RotatePcs

\* A rotate_credentials call on interface i has been made and has not returned.
InFlight(i) ==
    \E t \in Threads : (InRotate(t) \/ pc[t] = "rc_lock") /\ rot[t].iface = i

\* rotate_credentials has returned to thread t, which has not yet used the result.
Returned(t) == pc[t] \in {"start_ret1", "start_ret2", "tick_ret", "ext_ret"}

HasStep(t, name, ok) ==
    \E k \in 1..Len(rot[t].steps) : rot[t].steps[k] = <<name, ok>>

\* The status file of i is a complete status with this state.
Published(i, state) ==
    status_file[i].kind = "json" /\ status_file[i].data.state = state

\* C1: on every interface at most one thread is inside rotate_credentials'
\* locked block at a time, whichever threads call it.
C1_SingleRotationInFlight ==
    \A t1, t2 \in Threads :
        (InRotate(t1) /\ InRotate(t2) /\ rot[t1].iface = rot[t2].iface) => t1 = t2

\* A second caller waits for the lock while the first is rotating.
C1_Witness ==
    /\ InRotate("ext")
    /\ pc["main"] = "rc_lock"
    /\ rot["main"].iface = rot["ext"].iface

\* C2: when restart_hostapd fails, the call sets no credentials, returns False
\* and has published state "error" with an error message and the name,
\* creation and expiry times of the credentials the call found.
C2_RestartFailureKeepsCreds ==
    \A t \in Threads :
        HasStep(t, "restart_hostapd", FALSE) =>
            LET i == rot[t].iface
                old == rot[t].creds_before
            IN  /\ current_creds[i] = old
                /\ (pc[t] = "rc_restart_failed" \/ Returned(t)) =>
                      /\ Published(i, "error")
                      /\ status_file[i].data.last_error # Null
                      /\ status_file[i].data.ssid =
                            (IF old = <<>> THEN "" ELSE old[1].ssid)
                      /\ status_file[i].data.created_at =
                            (IF old = <<>> THEN 0 ELSE old[1].created_at)
                      /\ status_file[i].data.expires_at =
                            (IF old = <<>> THEN 0 ELSE old[1].expires_at)
                /\ Returned(t) => ~rot[t].result

\* A rotation of an engine that held credentials has returned after a failed restart.
C2_Witness ==
    /\ Returned("main")
    /\ HasStep("main", "restart_hostapd", FALSE)
    /\ rot["main"].creds_before # <<>>

\* C3: when write_hostapd_config fails, no further step of the rotation runs,
\* the credentials are unchanged, the call returns False and the published
\* state is "error".
C3_ConfigWriteFailureAborts ==
    \A t \in Threads :
        HasStep(t, "write_hostapd_config", FALSE) =>
            LET i == rot[t].iface IN
            /\ rot[t].steps = << <<"write_hostapd_config", FALSE>> >>
            /\ current_creds[i] = rot[t].creds_before
            /\ (pc[t] = "rc_config_failed" \/ Returned(t)) => Published(i, "error")
            /\ Returned(t) => ~rot[t].result

\* A rotation of an engine that held credentials has returned after a failed write.
C3_Witness ==
    /\ Returned("main")
    /\ HasStep("main", "write_hostapd_config", FALSE)
    /\ rot["main"].creds_before # <<>>

\* C4: when the configuration write and the restart succeed, the call returns
\* True, current_creds is the new Credentials with the reason given, and the
\* published status is "ready" with no error and the new name and times.
C4_SuccessReplacesCreds ==
    \A t \in Threads :
        (/\ Returned(t)
         /\ HasStep(t, "write_hostapd_config", TRUE)
         /\ HasStep(t, "restart_hostapd", TRUE)) =>
            LET i == rot[t].iface IN
            /\ rot[t].result
            /\ current_creds[i] =
                  << [interface |-> i, ssid |-> rot[t].ssid,
                      password |-> rot[t].password, created_at |-> rot[t].now,
                      expires_at |-> rot[t].expires_at,
                      rotation_reason |-> rot[t].reason] >>
            /\ Published(i, "ready")
            /\ status_file[i].data.last_error = Null
            /\ status_file[i].data.ssid = rot[t].ssid
            /\ status_file[i].data.created_at = rot[t].now
            /\ status_file[i].data.expires_at = rot[t].expires_at

\* The startup retry succeeded: the rotation before it failed and left "error".
C4_Witness ==
    /\ Returned("main")
    /\ rot["main"].result
    /\ rot["main"].reason = "startup_retry"
    /\ Published(rot["main"].iface, "ready")

\* C5: a reader of status-<iface>.json never finds the file empty or partly
\* written: get_interface_status never fails to decode it.
C5_ReaderSeesCompleteStatus == view.last_error # JSONDecodeError

\* C6: while no rotation of an interface is in flight and its engine holds
\* credentials, current-<iface>.json holds exactly those credentials.
C6_CredsFileMirrorsCreds ==
    \A i \in Ifaces :
        (~InFlight(i) /\ HasCreds(i)) => creds_file[i] = FileJson(Creds(i))

\* Credentials that replaced earlier ones are held and no rotation is in flight.
C6_Witness ==
    \E i \in Ifaces :
        /\ ~InFlight(i)
        /\ HasCreds(i)
        /\ Creds(i).rotation_reason \in {"time_expired", "manual_trigger"}

\* should_rotate has been called on wlan0 and nothing has run since.
Evaluated == pc["main"] # "tick_eval"

Unexpired == HasCreds("wlan0") /\ now < Creds("wlan0").expires_at

ThresholdReached ==
    /\ client_count >= global_config["wlan0"].client_threshold
    /\ now - Creds("wlan0").created_at >=
          global_config["wlan0"].min_time_after_clients_sec

\* C7: without credentials should_rotate returns (True, "initial").
C7_NoCredsIsInitial ==
    (Evaluated /\ ~HasCreds("wlan0")) => decision = <<TRUE, "initial">>

\* Called without credentials, with clients at the threshold.
C7_Witness ==
    /\ Evaluated
    /\ ~HasCreds("wlan0")
    /\ client_count >= global_config["wlan0"].client_threshold
    /\ client_count > 0

\* C8: with now >= expires_at should_rotate returns (True, "time_expired"),
\* whatever the client count.
C8_ExpiredIsTimeExpired ==
    (Evaluated /\ HasCreds("wlan0") /\ now >= Creds("wlan0").expires_at) =>
        decision = <<TRUE, "time_expired">>

\* Called on expired credentials with the client threshold reached too.
C8_Witness ==
    /\ Evaluated
    /\ HasCreds("wlan0")
    /\ now >= Creds("wlan0").expires_at
    /\ ThresholdReached
    /\ client_count > 0

\* C9: on unexpired credentials with the client count at or above the threshold
\* and the age at or above the minimum, should_rotate returns
\* (True, "client_threshold_<client count>").
C9_ThresholdRotates ==
    (Evaluated /\ Unexpired /\ ThresholdReached) =>
        decision = <<TRUE, "client_threshold_" \o ToString(client_count)>>

\* Called with the client count above the threshold.
C9_Witness ==
    /\ Evaluated
    /\ Unexpired
    /\ ThresholdReached
    /\ client_count > global_config["wlan0"].client_threshold
    /\ decision = <<TRUE, "client_threshold_1">>

\* C10: on unexpired credentials should_rotate returns False when the client
\* count is below the threshold or the age is below the minimum.
C10_NoRotationOtherwise ==
    (Evaluated /\ Unexpired /\ ~ThresholdReached) => decision[1] = FALSE

\* Called with the clients at the threshold and the credentials too young.
C10_Witness ==
    /\ Evaluated
    /\ Unexpired
    /\ client_count >= global_config["wlan0"].client_threshold
    /\ now - Creds("wlan0").created_at <
          global_config["wlan0"].min_time_after_clients_sec
    /\ decision[1] = FALSE

\* What the engine of an interface holds and publishes.
EngineState ==
    <<current_creds, last_manual_rotation, trigger_file, status_file, creds_file>>

\* C11: a call of should_rotate changes neither current_creds, nor the time of
\* the last manual rotation, nor the trigger marker, nor the status and
\* credentials files; so no number of calls does.
C11_EvaluateChangesNothing ==
    [][(pc["main"] = "tick_eval" /\ pc'["main"] # "tick_eval") =>
          UNCHANGED EngineState]_vars

\* should_rotate has returned False on an engine with credentials, a published
\* status and a pending trigger marker.
C11_Witness ==
    /\ pc["main"] = "us_open"
    /\ upd["main"].ret = "tick_next"
    /\ HasCreds("wlan0")
    /\ trigger_file["wlan0"]
    /\ last_manual_rotation["wlan0"] > 0
    /\ Published("wlan0", "ready")

\* The main thread takes the step of the loop that calls check_trigger_file.
ChecksTrigger ==
    /\ pc["main"] = "tick_trigger"
    /\ cur <= Len(Engines)
    /\ pc'["main"] # "tick_trigger"

InCooldown(i) ==
    now - last_manual_rotation[i] < global_config[i].manual_rotation_cooldown_sec

\* C12: a check_trigger_file call that finds the marker leaves it removed,
\* accepted or not; a marker found inside the cooldown is answered with the
\* warning and no rotation, and a manual rotation starts only from a marker
\* that is there when it starts.
C12_MarkerAlwaysConsumed ==
    [][/\ (ChecksTrigger /\ trigger_file[CurIface]) =>
             /\ ~trigger_file'[CurIface]
             /\ InCooldown(CurIface) =>
                    /\ warned'
                    /\ pc'["main"] = "tick_eval"
                    /\ attempts' = attempts
       /\ (rot'["main"].reason = "manual_trigger" /\ rot["main"].reason # "manual_trigger") =>
             (ChecksTrigger /\ trigger_file[CurIface] /\ ~trigger_file'[CurIface])
      ]_vars

\* A marker has just been rejected for cooldown and is gone.
C12_Witness ==
    /\ pc["main"] = "tick_eval"
    /\ warned
    /\ ~trigger_file["wlan0"]
    /\ InCooldown("wlan0")

\* C13: check_trigger_file returns True only on a marker found with the
\* cooldown elapsed since the last accepted one, and the rotation that follows
\* has reason "manual_trigger"; otherwise last_manual_rotation stays, no
\* rotation is started by the call and the status file is not written.
C13_AcceptOnlyAfterCooldown ==
    [][ChecksTrigger =>
          LET i == CurIface IN
          IF pc'["main"] = "rc_lock"
          THEN /\ trigger_file[i]
               /\ now - last_manual_rotation[i] >=
                     global_config[i].manual_rotation_cooldown_sec
               /\ last_manual_rotation'[i] = now
               /\ rot'["main"].reason = "manual_trigger"
          ELSE /\ last_manual_rotation' = last_manual_rotation
               /\ rot' = rot
               /\ attempts' = attempts
               /\ status_file' = status_file
      ]_vars

\* A second manual trigger is accepted after the rotation of an earlier one.
C13_Witness ==
    /\ pc["main"] = "rc_lock"
    /\ rot["main"].reason = "manual_trigger"
    /\ HasCreds("wlan0")
    /\ Creds("wlan0").rotation_reason = "manual_trigger"
    /\ now - Creds("wlan0").created_at >=
          global_config["wlan0"].manual_rotation_cooldown_sec

\* C14: every write of the rotation history leaves at most
\* log_retention_count entries: the new entry appended to the old ones, with
\* the oldest dropped once the history is full.
C14_HistoryWithinRetention ==
    [][rotations' # rotations =>
          LET n == config.log_retention_count
              kept == IF Len(rotations) < n THEN rotations ELSE Tail(rotations)
          IN  /\ Len(rotations') <= n
              /\ Len(rotations') > 0
              /\ rotations' = Append(kept, rotations'[Len(rotations')])
              /\ rotations'[Len(rotations')].ssid = Creds(CurIface).ssid
      ]_vars

\* C20: credentials an engine holds are created before they expire.
C20_CreatedBeforeExpiry ==
    \A i \in Ifaces : HasCreds(i) => Creds(i).created_at < Creds(i).expires_at

\* The history after one entry for the rotation thread t has made is logged.
LoggedOnce(t) ==
    LET n == config.log_retention_count
        kept == IF Len(rotations) < n THEN rotations ELSE Tail(rotations)
        last == rotations'[Len(rotations')]
    IN  /\ Len(rotations') > 0
        /\ rotations' = Append(kept, last)
        /\ last.interface = rot[t].iface
        /\ last.ssid = rot[t].ssid

\* C15: when the daemon takes the result of a rotation (startup, startup
\* retry, manual trigger or policy), a successful one is appended to the
\* history as one entry with its interface and network name, a failed one
\* leaves the history as it was.
C15_SuccessLoggedOnce ==
    [][(Returned("main") /\ pc'["main"] # pc["main"]) =>
          IF rot["main"].result THEN LoggedOnce("main")
          ELSE rotations' = rotations
      ]_vars

\* The startup loop of run() has gone through every engine.
StartupDone == pc["main"] = "start_iface" /\ cur > Len(Engines)

\* The startup of the one engine of a single-interface daemon, where attempts
\* counts the rotations of that engine: the first rotation has reason `first`;
\* the second is made only after the first failed and has reason `retry`; at
\* the end the engine holds the credentials of the rotation that succeeded,
\* or none and the published state is "error".
StartupRotations(first, retry) ==
    LET i == "wlan0" IN
    /\ rot["main"].ret = "start_ret1" =>
          (rot["main"].reason = first /\ attempts = 1)
    /\ rot["main"].ret = "start_ret2" =>
          /\ rot["main"].reason = retry
          /\ attempts = 2
          /\ rot["main"].creds_before = <<>>
    /\ pc["main"] = "start_sleep" => (attempts = 1 /\ ~HasCreds(i))
    /\ StartupDone =>
          \/ attempts = 1 /\ HasCreds(i) /\ Creds(i).rotation_reason = first
          \/ attempts = 2 /\ HasCreds(i) /\ Creds(i).rotation_reason = retry
          \/ attempts = 2 /\ ~HasCreds(i) /\ Published(i, "error")

\* C16 as claimed: the startup rotation has reason "initial", its one retry
\* "initial_retry".
C16_StartupInitialReasons == StartupRotations("initial", "initial_retry")

\* C16: at startup the engine is rotated once with reason "startup"; if and
\* only if that fails, once more with reason "startup_retry"; if that fails
\* too the published state is "error" when the main loop begins.
C16_StartupRotations == StartupRotations("startup", "startup_retry")

\* Both startup rotations have failed and the main loop is about to begin.
C16_Witness ==
    /\ StartupDone
    /\ attempts = 2
    /\ ~HasCreds("wlan0")
    /\ Published("wlan0", "error")
    /\ status_file["wlan0"].data.last_error = "Startup rotation failed"

\* C17: a marker found with the cooldown elapsed starts a rotation of that
\* engine with reason "manual_trigger" in the same step; should_rotate is
\* reached only from a check_trigger_file that accepted nothing; and when a
\* rotation of the tick has returned the loop goes to the next engine without
\* another rotation, whatever the state of the credentials.
C17_ManualTriggerFirst ==
    [][/\ (ChecksTrigger /\ trigger_file[CurIface] /\ ~InCooldown(CurIface)) =>
             /\ pc'["main"] = "rc_lock"
             /\ rot'["main"].reason = "manual_trigger"
             /\ rot'["main"].iface = CurIface
             /\ attempts' = attempts + 1
       /\ (pc'["main"] = "tick_eval" /\ pc["main"] # "tick_eval") =>
             /\ ChecksTrigger
             /\ ~(trigger_file[CurIface] /\ ~InCooldown(CurIface))
             /\ cur' = cur
       /\ (pc["main"] = "tick_ret" /\ pc'["main"] # "tick_ret") =>
             /\ pc'["main"] = "tick_trigger"
             /\ cur' = cur + 1
             /\ attempts' = attempts
      ]_vars

\* A manual-trigger rotation of an engine whose credentials had expired has
\* returned.
C17_Witness ==
    /\ pc["main"] = "tick_ret"
    /\ rot["main"].reason = "manual_trigger"
    /\ rot["main"].creds_before # <<>>
    /\ rot["main"].creds_before[1].expires_at <= rot["main"].now
    /\ decision = <<FALSE, "">>

\* C18: a tick that finds the last rotation of the engine failed (its state
\* "error" still published) and accepts no manual trigger attempts a rotation.
C18_FailedRotationRetried ==
    [][(/\ pc["main"] = "tick_eval"
        /\ Published(CurIface, "error")
        /\ pc'["main"] # "tick_eval") => pc'["main"] = "rc_lock"]_vars

\* The lifecycle state status-<iface>.json shows.
PublishedState(i) ==
    IF status_file[i].kind = "json" THEN status_file[i].data.state
    ELSE "uninitialized"

LifecycleTransitions ==
    {<<"uninitialized", "rotating">>, <<"rotating", "ready">>,
     <<"ready", "rotating">>, <<"rotating", "error">>, <<"error", "rotating">>}

\* C19: every update_status that changes the published state of an interface
\* changes it along one of the transitions of the lifecycle; "error" is never
\* followed by "ready".
C19_LifecycleTransitions ==
    [][\A t \in Threads :
          (pc[t] = "us_open" /\ pc'[t] = "us_dump") =>
             LET from == PublishedState(upd[t].iface)
                 to == upd[t].state
             IN  from # to => <<from, to>> \in LifecycleTransitions
      ]_vars

\* C21: after a failed generate_qr the rotation goes on to restart_hostapd,
\* and when the restart succeeds it returns True with current_creds replaced
\* by the new Credentials, as after a successful generate_qr.
C21_QrFailureTolerated ==
    \A t \in Threads :
        HasStep(t, "generate_qr", FALSE) =>
            LET i == rot[t].iface IN
            /\ \/ pc[t] = "rc_restart"
               \/ HasStep(t, "restart_hostapd", TRUE)
               \/ HasStep(t, "restart_hostapd", FALSE)
            /\ (Returned(t) /\ HasStep(t, "restart_hostapd", TRUE)) =>
                  /\ rot[t].result
                  /\ current_creds[i] =
                        <<Credentials(i, rot[t].ssid, rot[t].password, rot[t].now,
                                      rot[t].expires_at, rot[t].reason)>>
                  /\ creds_file[i] = FileJson(Creds(i))

\* A rotation that replaced earlier credentials has returned True after its
\* generate_qr failed.
C21_Witness ==
    /\ Returned("main")
    /\ HasStep("main", "generate_qr", FALSE)
    /\ rot["main"].result
    /\ rot["main"].creds_before # <<>>
    /\ Creds("wlan0") # rot["main"].creds_before[1]

\* C22: a reload leaves the engine set, every engine's credentials and time
\* of last manual rotation, the published files and the history as they
\* were, and leaves a rotation in flight where it was, with its lock held.
C22_ReloadChangesOnlyConfig ==
    [][config' # config =>
          /\ UNCHANGED <<ap_instances, current_creds, last_manual_rotation,
                         status_file, creds_file, hostapd_conf, trigger_file,
                         rotations>>
          /\ UNCHANGED <<pc, cur, rot, upd, rotation_lock, running>>
      ]_vars

\* A rotation that drew its expiry under the first configuration has replaced
\* the credentials after a reload arrived during it.
C22_Witness ==
    /\ pc["main"] = "rc_done"
    /\ config = FileConfig
    /\ rot["main"].expires_at - rot["main"].now = DefaultConfig.rotation_interval_sec
    /\ HasCreds("wlan0")
    /\ Creds("wlan0").expires_at = rot["main"].expires_at
    /\ Published("wlan0", "ready")

\* C23: every engine holds the configuration last loaded, and the steps that
\* read it use the values last loaded: the interval and the name prefix in
\* rotate_credentials, the channel in write_hostapd_config, the cooldown in
\* check_trigger_file, the threshold and the minimum age in should_rotate.
C23_EnginesUseReloadedConfig ==
    [][/\ \A i \in ap_instances :
             global_config'[i] = config' /\ ap_config'[i] = interfaces'[i]
       /\ \A t \in Threads :
             /\ (pc[t] = "rc_generate" /\ pc'[t] = "rc_write_config") =>
                   /\ rot'[t].expires_at = now + config.rotation_interval_sec
                   /\ \E k \in 1..MaxRand :
                         rot'[t].ssid = config.ssid_prefix \o ToString(k)
             /\ (pc[t] = "rc_write_config" /\ pc'[t] = "rc_qr") =>
                   hostapd_conf'[rot[t].iface].data.channel =
                      interfaces[rot[t].iface].channel
       /\ ChecksTrigger =>
             ((pc'["main"] = "rc_lock") <=>
                 (/\ trigger_file[CurIface]
                  /\ now - last_manual_rotation[CurIface] >=
                        config.manual_rotation_cooldown_sec))
       /\ (pc["main"] = "tick_eval" /\ pc'["main"] # "tick_eval") =>
             decision' = should_rotate(current_creds[CurIface], now, client_count',
                                       config)
      ]_vars

\* After a reload a manual trigger was accepted and the rotation used the
\* reloaded interval, prefix and channel.
C23_Witness ==
    /\ config = FileConfig
    /\ HasCreds("wlan0")
    /\ Creds("wlan0").rotation_reason = "manual_trigger"
    /\ Creds("wlan0").expires_at - Creds("wlan0").created_at =
          FileConfig.rotation_interval_sec
    /\ Creds("wlan0").ssid = "net-2"
    /\ hostapd_conf["wlan0"] =
          FileJson([ssid |-> "net-2", password |-> "pw2", channel |-> 1])

\* The main thread can take no step for a reason the program does not have:
\* the clock or the number of rotations of the model is at its cap.
AtModelCap == pc["main"] # "stopped" /\ ~ENABLED Main

\* C24: the termination signal clears the running flag for good and touches
\* nothing else, so the tick and the rotation in progress go on; with the
\* flag cleared the loop head starts no tick, and the loop stops.
C24_SignalStopsAfterTick ==
    /\ [][/\ (running /\ ~running') =>
               UNCHANGED <<pc, cur, rot, upd, rotation_lock, current_creds,
                           status_file, creds_file, hostapd_conf, rotations>>
          /\ ~running => ~running'
          /\ (pc["main"] = "loop_head" /\ pc'["main"] = "tick_trigger") => running
          /\ (pc["main"] = "loop_head" /\ pc'["main"] # "loop_head" /\ ~running) =>
                pc'["main"] = "stopped"
         ]_vars
    /\ (~running ~> (pc["main"] = "stopped" \/ AtModelCap))

\* The signal arrived during a tick whose manual rotation is in flight, and
\* the rotation has gone on to replace the credentials.
C24_Witness ==
    /\ ~running
    /\ pc["main"] = "rc_done"
    /\ rot["main"].reason = "manual_trigger"
    /\ HasCreds("wlan0")
    /\ Creds("wlan0").rotation_reason = "manual_trigger"

\* _init_ap_instances has returned (or has ended the process).
Probed ==
    /\ pc["main"] \notin {"init_iface", "init_next"}
    /\ upd["main"].ret # "init_next"

NeverRotated(i) ==
    /\ ~HasCreds(i)
    /\ hostapd_conf[i] = FileAbsent
    /\ creds_file[i] = FileAbsent
    /\ \A t \in Threads : InRotate(t) => rot[t].iface # i

\* C25: once the interfaces are probed, every interface the host does not
\* have or the configuration disables has a "disabled" status published, has
\* no engine and is never rotated, also after a reload.
C25_DisabledPublishedAndExcluded ==
    Probed =>
       \A i \in Ifaces :
          (i \notin host_ifaces \/ ~interfaces[i].enabled) =>
             /\ Published(i, "disabled")
             /\ i \notin ap_instances
             /\ NeverRotated(i)

\* As AtModelCap, for the main thread with the handler of the loop.
AtFaultyCap == pc["main"] # "stopped" /\ ~ENABLED MainFaulty

\* C26: an exception raised in a tick is caught and execution goes back to
\* the head of the loop; the loop ends only with the running flag cleared;
\* and after the exception, while the flag is set, a tick is started again
\* from the first engine.
C26_FailedTickContinues ==
    /\ [][/\ (pc["main"] = "tick_except" /\ pc'["main"] # "tick_except") =>
               pc'["main"] = "loop_head" /\ running' = running
          /\ (pc["main"] = "loop_head" /\ pc'["main"] # "loop_head" /\ running) =>
               pc'["main"] = "tick_trigger" /\ cur' = 1
          /\ pc'["main"] = "stopped" => ~running'
         ]_vars
    /\ (pc["main"] = "tick_except" ~>
           \/ pc["main"] = "tick_trigger" /\ cur = 1
           \/ ~running
           \/ AtFaultyCap)

\* should_rotate has raised on an engine that holds credentials.
C26_Witness ==
    /\ pc["main"] = "tick_except"
    /\ running
    /\ HasCreds("wlan0")
    /\ now < BootTime + MaxTime

\* The evaluation at the current time has rotated for this reason: the new
\* credentials are created now and expire one interval later.
RotatedFor(reason) ==
    /\ decision' = <<TRUE, reason>>
    /\ current_creds'["wlan0"] # <<>>
    /\ current_creds'["wlan0"][1].rotation_reason = reason
    /\ current_creds'["wlan0"][1].created_at = now
    /\ current_creds'["wlan0"][1].expires_at = now + 300

\* C27: threshold 5, minimum age 120, interval 300, rotations succeeding.
\* The fresh engine rotates at t = 0 for "initial"; the engine rotated at 0
\* rotates at t = 150 with 6 clients for "client_threshold_6"; the engine
\* rotated at 150 does not rotate at t = 449 with 0 clients and rotates at
\* t = 451 for "time_expired".
C27_Scenario ==
    [][(pc["main"] = "tick_eval" /\ pc'["main"] = "tick_sleep") =>
          /\ (now = 0 /\ ~HasCreds("wlan0")) => RotatedFor("initial")
          /\ (now = 150 /\ client_count' = 6 /\ HasCreds("wlan0")
                 /\ Creds("wlan0").created_at = 0) =>
                RotatedFor("client_threshold_6")
          /\ (now = 449 /\ client_count' = 0 /\ HasCreds("wlan0")
                 /\ Creds("wlan0").created_at = 150) =>
                (decision' = <<FALSE, "">> /\ UNCHANGED <<current_creds, rotations>>)
          /\ (now = 451 /\ HasCreds("wlan0")
                 /\ Creds("wlan0").created_at = 150) =>
                RotatedFor("time_expired")
      ]_vars

\* The scenario has run: three rotations, at 0, 150 and 451.
C27_Witness ==
    /\ now = 451
    /\ Len(rotations) = 3
    /\ rotations[1].reason = "initial" /\ rotations[1].created_at = 0
    /\ rotations[2].reason = "client_threshold_6" /\ rotations[2].created_at = 150
    /\ rotations[3].reason = "time_expired" /\ rotations[3].created_at = 451
    /\ Creds("wlan0").expires_at = 751

\* C28: a caller that gets the lock after another caller has replaced the
\* credentials it saw when it asked goes on to rotate only if the policy
\* demands a rotation of the credentials it finds.
C28_SecondCallerReevaluates ==
    [][\A t \in Threads :
          (/\ pc[t] = "rc_lock" /\ pc'[t] # "rc_lock"
           /\ current_creds[rot[t].iface] # rot[t].creds_before) =>
             \E n \in ClientCounts :
                should_rotate(current_creds[rot[t].iface], now, n,
                              global_config[rot[t].iface])[1]
      ]_vars

\* Backslash-unescaping: a backslash stands for the character after it.
RECURSIVE Unescape(_)
Unescape(s) ==
    IF s = <<>> THEN <<>>
    ELSE IF Head(s) = "\\" /\ Len(s) >= 2
         THEN <<s[2]>> \o Unescape(SubSeq(s, 3, Len(s)))
         ELSE <<Head(s)>> \o Unescape(Tail(s))

\* The fields of a join-string: it is cut at every ';' that no backslash
\* escapes; acc is the field being read.
RECURSIVE SplitFields(_, _)
SplitFields(s, acc) ==
    IF s = <<>> THEN <<acc>>
    ELSE IF Head(s) = "\\" /\ Len(s) >= 2
         THEN SplitFields(SubSeq(s, 3, Len(s)), acc \o <<s[1], s[2]>>)
         ELSE IF Head(s) = ";"
              THEN <<acc>> \o SplitFields(Tail(s), <<>>)
              ELSE SplitFields(Tail(s), Append(acc, Head(s)))

\* C29: unescaping the escaped name and passphrase gives them back, and the
\* join-string cut at its unescaped ';' has exactly the fields WIFI:T:WPA,
\* S:<name>, P:<passphrase> and two empty ones, whose unescaped values are
\* the name and the passphrase.
C29_EscapeRoundTrip ==
    qr_string # <<>> =>
       LET f == SplitFields(qr_string, <<>>) IN
       /\ Unescape(escape_wifi_string(qr_args.ssid)) = qr_args.ssid
       /\ Unescape(escape_wifi_string(qr_args.password)) = qr_args.password
       /\ Len(f) = 5
       /\ f[1] = <<"W", "I", "F", "I", ":", "T", ":", "W", "P", "A">>
       /\ Len(f[2]) >= 2 /\ SubSeq(f[2], 1, 2) = <<"S", ":">>
       /\ Unescape(SubSeq(f[2], 3, Len(f[2]))) = qr_args.ssid
       /\ Len(f[3]) >= 2 /\ SubSeq(f[3], 1, 2) = <<"P", ":">>
       /\ Unescape(SubSeq(f[3], 3, Len(f[3]))) = qr_args.password
       /\ f[4] = <<>> /\ f[5] = <<>>

\* The join-string of a name ending in a backslash and the passphrase
\* a\b;c,d"e:f.
C29_Witness ==
    /\ qr_args.ssid = <<";", "\\">>
    /\ qr_args.password = LongPassphrase
    /\ qr_string =
          <<"W", "I", "F", "I", ":", "T", ":", "W", "P", "A", ";", "S", ":",
            "\\", ";", "\\", "\\", ";", "P", ":",
            "a", "\\", "\\", "b", "\\", ";", "c", "\\", ",", "d", "\\", "\"",
            "e", "\\", ":", "f", ";", ";">>

\* No status file is to be read for interface i.
NoStatusFor(i) ==
    /\ status_file[i] = FileAbsent
    /\ i # "wlan0" \/ legacy_status = FileAbsent

\* Only status.json is there for wlan0.
LegacyOnly == status_file["wlan0"] = FileAbsent /\ legacy_status.kind = "json"

\* C30: asked for wlan0 without status-wlan0.json, both readers answer from
\* status.json; with no file to read the web view answers state "unknown"
\* with last_error null, and the LED monitor answers None (it has no
\* "unknown" record: None is its answer for no status), neither failing.
C30_ReaderFallback ==
    /\ (view # NoView /\ view.interface = "wlan0" /\ LegacyOnly) =>
          /\ view.state = legacy_status.data.state
          /\ view.last_error = legacy_status.data.last_error
    /\ \A i \in Ifaces :
          (view # NoView /\ view.interface = i /\ NoStatusFor(i)) =>
             /\ view.state = "unknown"
             /\ view.last_error = Null
    /\ (led_status.interface = "wlan0" /\ LegacyOnly) =>
          led_status.status = <<legacy_status.data>>
    /\ \A i \in Ifaces :
          (led_status.interface = i /\ NoStatusFor(i)) =>
             led_status.status = <<>>

\* Both readers have answered for wlan0 from status.json alone.
C30_Witness ==
    /\ LegacyOnly
    /\ legacy_status.data.state = "error"
    /\ view.interface = "wlan0" /\ view.state = "error"
    /\ led_status.interface = "wlan0" /\ led_status.status # <<>>

\* The status file of engine i is a "ready" status built now: the credentials
\* fields are those of current_creds, the remaining seconds are counted from
\* the current time and the client count is one iw can report.
FreshReadyStatus(i) ==
    /\ status_file[i].kind = "json"
    /\ HasCreds(i)
    /\ LET d == status_file[i].data IN
       /\ d.state = "ready"
       /\ d.ssid = Creds(i).ssid
       /\ d.created_at = Creds(i).created_at
       /\ d.expires_at = Creds(i).expires_at
       /\ d.last_rotation_reason = Creds(i).rotation_reason
       /\ d.time_remaining =
             (IF Creds(i).expires_at > now THEN Creds(i).expires_at - now ELSE 0)
       /\ d.client_count \in ClientCounts

\* C31: when should_rotate answers False for an engine (no trigger was
\* accepted and no rule fires), the tick calls update_status("ready") for
\* it, and the tick leaves the engine with its status file rewritten from
\* the state of this tick.
C31_IdleTickRefreshesStatus ==
    [][/\ (pc["main"] = "tick_eval" /\ pc'["main"] # "tick_eval" /\ ~decision'[1]) =>
             /\ pc'["main"] = "us_open"
             /\ upd'["main"].iface = CurIface
             /\ upd'["main"].state = "ready"
             /\ upd'["main"].ret = "tick_next"
       /\ (pc["main"] = "tick_next" /\ pc'["main"] # "tick_next") =>
             FreshReadyStatus(CurIface)
       /\ (pc["main"] \in {"tick_trigger", "tick_eval", "tick_next", "tick_ret"}
             /\ cur' = cur + 1) =>
             pc["main"] \in {"tick_next", "tick_ret"}
      ]_vars

\* A tick without rotation has rewritten the status of credentials that are
\* a second old, with a station connected.
C31_Witness ==
    /\ pc["main"] = "tick_next"
    /\ FreshReadyStatus("wlan0")
    /\ now > Creds("wlan0").created_at
    /\ status_file["wlan0"].data.time_remaining <
          Creds("wlan0").expires_at - Creds("wlan0").created_at
    /\ status_file["wlan0"].data.client_count = 1

\* What an engine keeps for itself.
OwnState(i) ==
    <<current_creds[i], last_manual_rotation[i], trigger_file[i], status_file[i],
      creds_file[i]>>

\* C32: with two engines, a step of the daemon on one interface (a step of
\* a rotation, of its failure handling, the reading of a trigger marker and
\* its acceptance or rejection, a status refresh) changes nothing the other
\* engine keeps, and a marker dropped for one interface touches only that
\* interface's marker.
C32_EnginesIndependent ==
    [][/\ \A i, j \in Ifaces :
             (OwnState(i)' # OwnState(i) /\ OwnState(j)' # OwnState(j)) => i = j
       /\ \A j \in Ifaces :
             (pc' # pc /\ OwnState(j)' # OwnState(j)) =>
                (cur <= Len(Engines) /\ j = Engines[cur])
       /\ \A t \in Threads :
             (InRotate(t) /\ t = "main") => rot[t].iface = Engines[cur]
      ]_vars

\* wlan1's manual trigger was rejected in its cooldown while wlan0 keeps the
\* credentials of its startup rotation.
C32_Witness ==
    /\ pc["main"] = "tick_eval"
    /\ Engines[cur] = "wlan1"
    /\ warned
    /\ HasCreds("wlan0") /\ Creds("wlan0").rotation_reason = "startup"
    /\ HasCreds("wlan1") /\ Creds("wlan1").rotation_reason = "manual_trigger"

\* C33: once restart_hostapd has failed in a rotation, the hostapd
\* configuration file holds the name and passphrase that rotation generated,
\* while current_creds and the published status keep those the rotation
\* found, so that the file differs from both whenever the generated pair is
\* not the pair in force; and no step but write_hostapd_config ever changes
\* the file.
C33_FailedRestartLeavesNewConfig ==
    /\ [](\A t \in Threads :
            HasStep(t, "restart_hostapd", FALSE) =>
               LET i == rot[t].iface
                   old == rot[t].creds_before
                   f == hostapd_conf[i]
               IN  /\ f.kind = "json"
                   /\ f.data.ssid = rot[t].ssid
                   /\ f.data.password = rot[t].password
                   /\ current_creds[i] = old
                   /\ (old # <<>> /\ <<old[1].ssid, old[1].password>> #
                                        <<rot[t].ssid, rot[t].password>>) =>
                         <<f.data.ssid, f.data.password>> #
                            <<Creds(i).ssid, Creds(i).password>>
                   /\ Returned(t) =>
                         /\ Published(i, "error")
                         /\ status_file[i].data.ssid =
                               (IF old = <<>> THEN "" ELSE old[1].ssid)
                         /\ old = <<>> => f.data.ssid # status_file[i].data.ssid)
    /\ [][hostapd_conf' # hostapd_conf =>
             \E t \in Threads : pc[t] = "rc_write_config" /\ pc'[t] # "rc_write_config"
         ]_vars

\* A rotation of an engine holding ssb-1 has returned after a failed restart
\* with ssb-2 on disk.
C33_Witness ==
    /\ Returned("main")
    /\ HasStep("main", "restart_hostapd", FALSE)
    /\ HasCreds("wlan0")
    /\ hostapd_conf["wlan0"].data.ssid # Creds("wlan0").ssid
    /\ hostapd_conf["wlan0"].data.ssid # status_file["wlan0"].data.ssid
    /\ status_file["wlan0"].data.ssid = Creds("wlan0").ssid

\* rotations.json records a manual rotation of i made less than the cooldown ago.
RecentManualRotation(i) ==
    \E k \in 1..Len(rotations) :
       /\ rotations[k].interface = i
       /\ rotations[k].reason = "manual_trigger"
       /\ now - rotations[k].created_at < global_config[i].manual_rotation_cooldown_sec

\* C34: a restart puts the time of last manual rotation of every engine back
\* to 0, and a marker read by an engine whose time of last manual rotation
\* is 0 is accepted, whatever the files of the old process say.
C34_RestartResetsCooldown ==
    [][/\ (pc["main"] = "stopped" /\ pc'["main"] # "stopped") =>
             \A i \in Ifaces : last_manual_rotation'[i] = 0 /\ current_creds'[i] = <<>>
       /\ (ChecksTrigger /\ trigger_file[CurIface]
             /\ last_manual_rotation[CurIface] = 0) =>
             /\ pc'["main"] = "rc_lock"
             /\ rot'["main"].reason = "manual_trigger"
             /\ last_manual_rotation'[CurIface] = now
      ]_vars

\* After a restart a marker has been accepted although the history shows a
\* manual rotation within the cooldown.
C34_Witness ==
    /\ pc["main"] = "rc_lock"
    /\ rot["main"].reason = "manual_trigger"
    /\ RecentManualRotation("wlan0")
    /\ last_manual_rotation["wlan0"] = now

\* C35: a thread holds the lock of an engine exactly while it is inside the
\* with block of rotate_credentials on it; every return, on success, after a
\* failed write, a failed restart or an exception, leaves the lock free and
\* gives True or False; and every call that has entered the block returns.
C35_RotateReleasesLock ==
    /\ [](\A t \in Threads : \A i \in Ifaces :
             rotation_lock[i] = t <=> (InRotate(t) /\ rot[t].iface = i))
    /\ [][\A t \in Threads :
             (InRotate(t) /\ ~InRotate(t)') =>
                /\ Returned(t)'
                /\ rotation_lock'[rot[t].iface] = NoThread
                /\ rot'[t].result \in BOOLEAN
                /\ rot'[t].result <=> pc[t] = "rc_done"
         ]_vars
    /\ \A t \in Threads : (InRotate(t) ~> Returned(t))

\* A rotation has returned False after an exception while the other thread
\* has got the lock.
C35_Witness ==
    /\ Returned("main")
    /\ HasStep("main", "exception", FALSE)
    /\ ~rot["main"].result
    /\ rotation_lock["wlan0"] = "ext"

C37_RotatingOnlyInFlight ==
    /\ [](\A i \in Ifaces :
             /\ Published(i, "rotating") => InFlight(i)
             /\ (~InFlight(i) /\ status_file[i].kind = "json") =>
                    PublishedState(i) \in {"ready", "error"})
    /\ [][\A t \in Threads :
             /\ (pc[t] # "rc_generate" /\ pc'[t] = "rc_generate") =>
                    Published(rot[t].iface, "rotating")'
             /\ (pc[t] = "us_dump" /\ pc'[t] \in {"rc_done", "rc_config_failed",
                                                  "rc_restart_failed", "rc_exception"}) =>
                    LET st == IF pc'[t] = "rc_done" THEN "ready" ELSE "error"
                    IN  /\ status_file'[rot[t].iface].kind = "json"
                        /\ status_file'[rot[t].iface].data.state = st
         ]_vars

\* A rotation that raised has returned and "error" is on display.
C37_Witness ==
    /\ Returned("main")
    /\ HasStep("main", "exception", FALSE)
    /\ ~InFlight("wlan0")
    /\ Published("wlan0", "error")

\* The trigger accepted last for i was not followed by a successful rotation:
\* one would have left credentials created at or after the acceptance.
LastManualFailed(i) ==
    /\ last_manual_rotation[i] > 0
    /\ HasCreds(i) => Creds(i).created_at < last_manual_rotation[i]

\* C38: the time of the last manual rotation is the time the trigger was
\* accepted from the acceptance on, whatever the rotation returns: only an
\* acceptance changes it, and after a failed manual rotation a marker found
\* within the cooldown of the acceptance is removed and refused.
C38_CooldownFromAcceptance ==
    /\ [](\A i \in Ifaces :
             (rot["main"].reason = "manual_trigger" /\ rot["main"].iface = i
              /\ rot["main"].now # 0) =>
                 last_manual_rotation[i] = rot["main"].now)
    /\ [][/\ last_manual_rotation' # last_manual_rotation =>
                 (ChecksTrigger /\ pc'["main"] = "rc_lock")
          /\ (ChecksTrigger /\ trigger_file[CurIface] /\ LastManualFailed(CurIface)
              /\ now - last_manual_rotation[CurIface] <
                    global_config[CurIface].manual_rotation_cooldown_sec) =>
                 /\ pc'["main"] = "tick_eval"
                 /\ warned'
                 /\ ~trigger_file'[CurIface]
                 /\ rot' = rot
                 /\ last_manual_rotation' = last_manual_rotation
         ]_vars

\* A marker has been refused within the cooldown of a trigger whose rotation
\* failed.
C38_Witness ==
    /\ pc["main"] = "tick_eval"
    /\ warned
    /\ LastManualFailed("wlan0")
    /\ now - last_manual_rotation["wlan0"] <
          global_config["wlan0"].manual_rotation_cooldown_sec

====
